---- MODULE Spec2Model ----
(***************************************************************************)
(* Model of the step-based animation engine of slidev-addon-animations:    *)
(* the interpolation functions (utils/lerpSystem), the helpers             *)
(* (utils/animationHelpers), the engine (utils/animationEngine:            *)
(* prepareAnimations, prepareReverseAnimations, applyEasing,               *)
(* processAnimationFrame, applyBatchUpdates, createAnimationLoop) and the  *)
(* navigation composable (composables/useKonvaAnimation).                  *)
(*                                                                         *)
(* Representation.                                                         *)
(*  - An AnimatableValue is a record [t, n]: t = "num" carries the number  *)
(*    n, t = "str" an opaque (non-colour) string numbered n, and           *)
(*    "undefined" / "NaN" the two JavaScript values of those names.        *)
(*    Numbers are carried in whole units; an interpolated number is        *)
(*    rounded down to a whole unit where IEEE doubles would keep a         *)
(*    fraction.                                                            *)
(*  - An AnimatableObject is the sequence of its [k, v] entries in         *)
(*    insertion order (the order Object.keys reports).                     *)
(*  - Target objects are mutable and shared by reference: objs maps an     *)
(*    object identity to its current contents.                             *)
(*  - An optional number (duration?, delay?, number | null) is <<>> when   *)
(*    absent and <<n>> when present.                                       *)
(*  - A progress value is a fraction [nan, n, d] (d > 0), nan for NaN.     *)
(***************************************************************************)
EXTENDS Integers, Sequences, FiniteSets, TLC

VARIABLES
    targets,        \* AnimationTarget[] handed to the engine / composable
    objs,           \* contents of the live target objects, by identity
    anims,          \* a ProcessedAnimation[] held by a direct caller
    op,             \* name of the last operation performed
    frameTime,      \* currentTime of the last processAnimationFrame call
    frameStart,     \* masterStartTime of the last processAnimationFrame call
    batch,          \* AnimationBatchUpdate[] returned by the last frame
    prepArgs,       \* arguments of the last prepare call
    prepResult,     \* what the last prepare call returned, or that it threw
    loops,          \* closures of createAnimationLoop, in creation order
    raf,            \* requestAnimationFrame callbacks still scheduled
    nextRafId,      \* next handle requestAnimationFrame hands out
    microtasks,     \* deferred writes queued by applyBatchUpdates
    clock,          \* timestamp of the latest frame delivered by the host
    nav,            \* refs of one useKonvaAnimation instance
    gen             \* the step producer handed to createAnimationFromGenerator

vars == << targets, objs, anims, op, frameTime, frameStart, batch, prepArgs,
           prepResult, loops, raf, nextRafId, microtasks, clock, nav, gen >>

----------------------------------------------------------------------------
(* Bounds of the model *)

MaxDuration == 2        \* durations range over 0..MaxDuration
MaxDelay == 1           \* delays range over -1..MaxDelay
MaxTime == 4            \* direct frame calls use currentTime in 0..MaxTime

Durations == 0 .. MaxDuration
Delays == -1 .. MaxDelay
FrameTimes == 0 .. MaxTime
StartTimes == {0, 1}

----------------------------------------------------------------------------
(* AnimatableValue and AnimatableObject *)

Num(n) == [t |-> "num", n |-> n]
Str(n) == [t |-> "str", n |-> n]
Undefined == [t |-> "undefined", n |-> 0]
NaN == [t |-> "NaN", n |-> 0]

RECURSIVE IndexOfKey(_, _, _)
IndexOfKey(o, key, i) ==
    IF i > Len(o) THEN 0
    ELSE IF o[i].k = key THEN i
    ELSE IndexOfKey(o, key, i + 1)

\* o[key]
Get(o, key) ==
    LET i == IndexOfKey(o, key, 1) IN IF i = 0 THEN Undefined ELSE o[i].v

\* o[key] = value
Put(o, key, value) ==
    LET i == IndexOfKey(o, key, 1)
    IN  IF i = 0 THEN Append(o, [k |-> key, v |-> value])
        ELSE [o EXCEPT ![i].v = value]

\* Object.keys(o)
ObjectKeys(o) == [i \in 1 .. Len(o) |-> o[i].k]

\* Object.assign(o, src)
RECURSIVE ObjectAssign(_, _)
ObjectAssign(o, src) ==
    IF src = << >> THEN o
    ELSE ObjectAssign(Put(o, Head(src).k, Head(src).v), Tail(src))

\* two objects hold the same value under every key
SameProps(o1, o2) ==
    /\ \A i \in 1 .. Len(o1) : Get(o2, o1[i].k) = o1[i].v
    /\ \A i \in 1 .. Len(o2) : Get(o1, o2[i].k) = o2[i].v

----------------------------------------------------------------------------
(* Interpolation (utils/lerpSystem) *)

Frac(n, d) == [nan |-> FALSE, n |-> n, d |-> d]
NaNProgress == [nan |-> TRUE, n |-> 0, d |-> 1]

\* start + (end - start) * progress; NaN as soon as an operand is no number
numberLerp(start, end, progress) ==
    IF start.t = "num" /\ end.t = "num" /\ ~progress.nan
    THEN Num(start.n + ((end.n - start.n) * progress.n) \div progress.d)
    ELSE NaN

\* opaque strings switch at one half; NaN < 0.5 is false
stringLerp(start, end, progress) ==
    IF ~progress.nan /\ 2 * progress.n < progress.d THEN start ELSE end

\* getLerpFunction dispatches on typeof start; NaN is a number, undefined
\* falls through to the numeric fallback
lerp(start, end, progress) ==
    IF start.t = "str" THEN stringLerp(start, end, progress)
    ELSE numberLerp(start, end, progress)

----------------------------------------------------------------------------
(* Easing functions a caller may pass.  "undefined" is no function;        *)
(* "Linear" is t; "EaseIn" is Konva's c*(t/=d)*t+b; "Half" is a caller's   *)
(* function returning t/2 (it does not reach 1); "Throws" raises.          *)

Easings == {"undefined", "Half", "Throws"}

CallEasing(easingFn, t) ==
    IF t.nan THEN NaNProgress
    ELSE CASE easingFn = "Linear" -> t
           [] easingFn = "EaseIn" -> Frac(t.n * t.n, t.d * t.d)
           [] easingFn = "Half" -> Frac(t.n, 2 * t.d)
           [] OTHER -> t

\* variant: the error of the easing function is not caught and the frame
\* gets no number for the animation
EasingCaught_Lost(progress) == NaNProgress

\* catch { return progress }
EasingCaught(progress) == progress

applyEasing(progress, easingFn) ==
    IF easingFn = "undefined" THEN progress
    ELSE IF easingFn = "Throws" THEN EasingCaught(progress)
    ELSE CallEasing(easingFn, progress)

----------------------------------------------------------------------------
(* Helpers (utils/animationHelpers).  Each takes the live objects and      *)
(* returns them after the writes.                                          *)

\* value of an optional number, or the fallback when it is absent (??)
OrElse(opt, fallback) == IF opt = << >> THEN fallback ELSE opt[1]

RECURSIVE initializeTargetsFrom(_, _, _)
initializeTargetsFrom(tg, objects, i) ==
    IF i > Len(tg) THEN objects
    ELSE initializeTargetsFrom(tg,
            [objects EXCEPT ![tg[i].target] =
                ObjectAssign(objects[tg[i].target], tg[i].initialState)],
            i + 1)

initializeTargets(tg, objects) == initializeTargetsFrom(tg, objects, 1)

RECURSIVE applyStepEndStateFrom(_, _, _, _)
applyStepEndStateFrom(tg, objects, stepIndex, i) ==
    IF i > Len(tg) THEN objects
    ELSE IF stepIndex < Len(tg[i].steps)
    THEN applyStepEndStateFrom(tg,
            [objects EXCEPT ![tg[i].target] =
                ObjectAssign(objects[tg[i].target],
                             tg[i].steps[stepIndex + 1].properties)],
            stepIndex, i + 1)
    ELSE applyStepEndStateFrom(tg, objects, stepIndex, i + 1)

applyStepEndState(tg, objects, stepIndex) ==
    applyStepEndStateFrom(tg, objects, stepIndex, 1)

Max(a, b) == IF a >= b THEN a ELSE b

RECURSIVE applyStepsLoop(_, _, _, _)
applyStepsLoop(tg, objects, i, toStep) ==
    IF i > toStep THEN objects
    ELSE applyStepsLoop(tg, applyStepEndState(tg, objects, i), i + 1, toStep)

applyStepsUpTo(tg, objects, fromStep, toStep) ==
    applyStepsLoop(tg, objects, Max(0, fromStep), toStep)

RECURSIVE MaxStepsFrom(_, _)
MaxStepsFrom(tg, i) ==
    IF i > Len(tg) THEN 0 ELSE Max(Len(tg[i].steps), MaxStepsFrom(tg, i + 1))

calculateTotalSteps(tg) == MaxStepsFrom(tg, 1)

----------------------------------------------------------------------------
(* Animation preparation (utils/animationEngine) *)

\* the ProcessedAnimation prepareAnimations pushes for one target
ForwardAnimation(target, live, step, defaultDuration, defaultEasing) ==
    LET keys == ObjectKeys(step.properties)
    IN  [ target |-> target.target,
          keys |-> keys,
          startVals |-> [j \in 1 .. Len(keys) |-> Get(live, keys[j])],
          endVals |-> [j \in 1 .. Len(keys) |-> Get(step.properties, keys[j])],
          duration |-> OrElse(step.duration, defaultDuration),
          delay |-> OrElse(step.delay, 0),
          easing |-> IF step.easing = "undefined" THEN defaultEasing
                     ELSE step.easing,
          completed |-> FALSE ]

\* The forEach of prepareAnimations from target i on.  A negative stepIndex
\* passes the test stepIndex < steps.length, steps[stepIndex] is undefined
\* and reading its properties raises a TypeError.
RECURSIVE prepareAnimationsFrom(_, _, _, _, _, _, _)
prepareAnimationsFrom(tg, objects, stepIndex, defaultDuration, defaultEasing, i, animations) ==
    IF i > Len(tg) THEN [threw |-> FALSE, value |-> animations]
    ELSE IF stepIndex < Len(tg[i].steps)
    THEN IF stepIndex < 0
         THEN [threw |-> TRUE, value |-> << >>]
         ELSE prepareAnimationsFrom(tg, objects, stepIndex, defaultDuration,
                defaultEasing, i + 1,
                Append(animations,
                       ForwardAnimation(tg[i], objects[tg[i].target],
                                        tg[i].steps[stepIndex + 1],
                                        defaultDuration, defaultEasing)))
    ELSE prepareAnimationsFrom(tg, objects, stepIndex, defaultDuration,
            defaultEasing, i + 1, animations)

prepareAnimations(tg, objects, stepIndex, defaultDuration, defaultEasing) ==
    prepareAnimationsFrom(tg, objects, stepIndex, defaultDuration,
                          defaultEasing, 1, << >>)

\* variant: the target state is the last step's properties alone
RECURSIVE TargetState_LastStepOnly(_, _, _, _)
TargetState_LastStepOnly(target, state, i, stepIndex) ==
    IF stepIndex >= 0 /\ stepIndex < Len(target.steps)
    THEN ObjectAssign(state, target.steps[stepIndex + 1].properties)
    ELSE state

\* the state prepareReverseAnimations computes for one target:
\* { ...initialState } with steps i..stepIndex assigned in order
RECURSIVE TargetState(_, _, _, _)
TargetState(target, state, i, stepIndex) ==
    IF i > stepIndex THEN state
    ELSE IF i < Len(target.steps)
    THEN TargetState(target,
                     ObjectAssign(state, target.steps[i + 1].properties),
                     i + 1, stepIndex)
    ELSE TargetState(target, state, i + 1, stepIndex)

\* variant: the target state is built in initialState itself
StateCopy_Alias(initialState) == [aliased |-> TRUE, value |-> initialState]

\* const state = { ...target.initialState }: a new object with the same
\* contents
StateCopy(initialState) == [aliased |-> FALSE, value |-> initialState]

\* what target.initialState holds after prepareReverseAnimations has built
\* the target state: Object.assign writes to state, which is initialState
\* itself only if state is no copy
InitialStateAfterReverse(target, stepIndex) ==
    LET state == StateCopy(target.initialState)
    IN  IF state.aliased THEN TargetState(target, state.value, 0, stepIndex)
        ELSE target.initialState

\* the targets after prepareReverseAnimations(tg, stepIndex, ...)
TargetsAfterReverse(tg, stepIndex) ==
    [i \in 1 .. Len(tg) |->
        [tg[i] EXCEPT !.initialState = InitialStateAfterReverse(tg[i], stepIndex)]]

\* variant: the reverse animation honours the options of step stepIndex
ReverseAnimation_StepOptions(target, live, stepIndex, defaultDuration, defaultEasing) ==
    LET targetState == TargetState(target, StateCopy(target.initialState).value, 0, stepIndex)
        keys == ObjectKeys(targetState)
        declared == stepIndex >= 0 /\ stepIndex < Len(target.steps)
    IN  [ target |-> target.target,
          keys |-> keys,
          startVals |-> [j \in 1 .. Len(keys) |-> Get(live, keys[j])],
          endVals |-> [j \in 1 .. Len(keys) |-> Get(targetState, keys[j])],
          duration |-> IF declared THEN OrElse(target.steps[stepIndex + 1].duration, defaultDuration)
                       ELSE defaultDuration,
          delay |-> IF declared THEN OrElse(target.steps[stepIndex + 1].delay, 0) ELSE 0,
          easing |-> IF declared /\ target.steps[stepIndex + 1].easing # "undefined"
                     THEN target.steps[stepIndex + 1].easing ELSE defaultEasing,
          completed |-> FALSE ]

ReverseAnimation(target, live, stepIndex, defaultDuration, defaultEasing) ==
    LET targetState == TargetState(target, StateCopy(target.initialState).value, 0, stepIndex)
        keys == ObjectKeys(targetState)
    IN  [ target |-> target.target,
          keys |-> keys,
          startVals |-> [j \in 1 .. Len(keys) |-> Get(live, keys[j])],
          endVals |-> [j \in 1 .. Len(keys) |-> Get(targetState, keys[j])],
          duration |-> defaultDuration,
          delay |-> 0,
          easing |-> defaultEasing,
          completed |-> FALSE ]

prepareReverseAnimations(tg, objects, stepIndex, defaultDuration, defaultEasing) ==
    [ threw |-> FALSE,
      value |-> [i \in 1 .. Len(tg) |->
                    ReverseAnimation(tg[i], objects[tg[i].target], stepIndex,
                                     defaultDuration, defaultEasing)] ]

----------------------------------------------------------------------------
(* Frame processor (utils/animationEngine) *)

\* Math.min(elapsed / duration, 1) for elapsed >= 0: 0 / 0 is NaN and
\* Math.min(NaN, 1) is NaN; a positive elapsed over 0 is Infinity
Progress(elapsed, duration) ==
    IF duration = 0
    THEN IF elapsed = 0 THEN NaNProgress
         ELSE IF elapsed > 0 THEN Frac(1, 1) ELSE Frac(-1, 1)
    ELSE IF elapsed >= duration THEN Frac(1, 1)
    ELSE Frac(elapsed, duration)

\* variant: completed animations are processed again
SkipsCompleted_Never(anim) == FALSE

\* variant: an animation without keys is passed over like a completed one
SkipsCompleted_OrEmpty(anim) == anim.completed \/ anim.keys = << >>

\* if (anim.completed) continue
SkipsCompleted(anim) == anim.completed

\* variant: a negative delay makes the animation wait like a positive one
Elapsed_AbsoluteDelay(anim, currentTime, masterStartTime) ==
    currentTime - masterStartTime - (IF anim.delay < 0 THEN 0 - anim.delay ELSE anim.delay)

\* const elapsed = currentTime - masterStartTime - anim.delay
Elapsed(anim, currentTime, masterStartTime) ==
    currentTime - masterStartTime - anim.delay

\* variant: the delay does not gate the animation
StillDelayed_Never(elapsed) == FALSE

\* if (elapsed < 0) continue
StillDelayed(elapsed) == elapsed < 0

\* progress >= 1 (false for NaN)
ReachedEnd(progress) == ~progress.nan /\ progress.n >= progress.d

\* updates[key] = lerp(startVal, endVal, easedProgress), key by key
RECURSIVE LerpUpdates(_, _, _, _)
LerpUpdates(anim, easedProgress, i, updates) ==
    IF i > Len(anim.keys) THEN updates
    ELSE LerpUpdates(anim, easedProgress, i + 1,
            Put(updates, anim.keys[i],
                lerp(anim.startVals[i], anim.endVals[i], easedProgress)))

\* updates[anim.keys[i]] = anim.endVals[i], key by key
RECURSIVE ExactUpdates(_, _, _)
ExactUpdates(anim, i, updates) ==
    IF i > Len(anim.keys) THEN updates
    ELSE ExactUpdates(anim, i + 1, Put(updates, anim.keys[i], anim.endVals[i]))

\* variant: the eased values are left in place on completion
FinalUpdates_Eased(anim, updates) == updates

\* "Ensure final values are exact": the overwrite on completion
FinalUpdates(anim, updates) == ExactUpdates(anim, 1, updates)

\* The loop of processAnimationFrame from animation i on.  A batch entry
\* carries, besides target and updates, the index anim of the animation it
\* was computed for (bookkeeping of the model, not a field of the code).
RECURSIVE processFrom(_, _, _, _, _)
processFrom(animations, currentTime, masterStartTime, i, batchUpdates) ==
    IF i > Len(animations)
    THEN [animations |-> animations, batchUpdates |-> batchUpdates]
    ELSE
      LET anim == animations[i]
          elapsed == Elapsed(anim, currentTime, masterStartTime)
      IN  IF SkipsCompleted(anim) \/ StillDelayed(elapsed)
          THEN processFrom(animations, currentTime, masterStartTime, i + 1,
                           batchUpdates)
          ELSE
            LET progress == Progress(elapsed, anim.duration)
                easedProgress == applyEasing(progress, anim.easing)
                lerped == LerpUpdates(anim, easedProgress, 1, << >>)
                updates == IF ReachedEnd(progress)
                           THEN FinalUpdates(anim, lerped)
                           ELSE lerped
            IN  processFrom(
                    [animations EXCEPT ![i].completed =
                        IF ReachedEnd(progress) THEN TRUE ELSE @],
                    currentTime, masterStartTime, i + 1,
                    Append(batchUpdates,
                           [target |-> anim.target, updates |-> updates,
                            anim |-> i]))

\* variant: the animations of a frame end together with the first one
processAnimationFrame_SharedEnd(animations, currentTime, masterStartTime) ==
    LET r == processFrom(animations, currentTime, masterStartTime, 1, << >>)
    IN  [r EXCEPT !.animations =
            [i \in 1 .. Len(animations) |->
                [r.animations[i] EXCEPT !.completed = r.animations[1].completed]]]

\* variant: a processed animation restarts from the values it emitted
processAnimationFrame_Rebased(animations, currentTime, masterStartTime) ==
    LET r == processFrom(animations, currentTime, masterStartTime, 1, << >>)
    IN  [r EXCEPT !.animations =
            [i \in 1 .. Len(animations) |->
                IF \E j \in 1 .. Len(r.batchUpdates) : r.batchUpdates[j].anim = i
                THEN [r.animations[i] EXCEPT !.startVals = r.animations[i].endVals]
                ELSE r.animations[i]]]

processAnimationFrame(animations, currentTime, masterStartTime) ==
    processFrom(animations, currentTime, masterStartTime, 1, << >>)

areAllAnimationsCompleted(animations) ==
    \A i \in 1 .. Len(animations) : animations[i].completed

\* variant: the entries are written last to first, so that the first
\* entry for a target and key wins
RECURSIVE WriteBatch_FirstWins(_, _)
WriteBatch_FirstWins(objects, batchUpdates) ==
    IF batchUpdates = << >> THEN objects
    ELSE LET last == batchUpdates[Len(batchUpdates)]
         IN  WriteBatch_FirstWins(
                [objects EXCEPT ![last.target] = ObjectAssign(objects[last.target], last.updates)],
                SubSeq(batchUpdates, 1, Len(batchUpdates) - 1))

\* the forEach of the deferred write of applyBatchUpdates
RECURSIVE WriteBatch(_, _)
WriteBatch(objects, batchUpdates) ==
    IF batchUpdates = << >> THEN objects
    ELSE WriteBatch(
            [objects EXCEPT ![Head(batchUpdates).target] =
                ObjectAssign(objects[Head(batchUpdates).target],
                             Head(batchUpdates).updates)],
            Tail(batchUpdates))

----------------------------------------------------------------------------
(* State shared by the specifications *)

ObjIds == {1, 2}

NoObjects == [o \in ObjIds |-> << >>]

\* the refs of useKonvaAnimation right after they are created
InitialNav ==
    [ isAnimating |-> FALSE, currentStep |-> -1, stepStartTime |-> 0,
      activeTweens |-> << >>,
      clicks |-> 0,          \* $slidev.nav.clicks as the watcher last saw it
      changedAt |-> << >> ]  \* history: Date.now() of the last step change

NoCall == [stepIndex |-> 0, defaultDuration |-> 0, defaultEasing |-> "undefined"]
NoResult == [threw |-> FALSE, value |-> << >>]

\* no step producer is involved
NoGen == [script |-> << >>, ending |-> "return", called |-> FALSE, steps |-> << >>, threw |-> FALSE]

----------------------------------------------------------------------------
(* SpecFrame: a caller holds a ProcessedAnimation[] and calls              *)
(* processAnimationFrame on it directly, with any times.                   *)

KeyLists == { << >>, <<"x", "y">> }

StartOf(key) == IF key = "x" THEN Num(0) ELSE Str(1)
EndOf(key) == IF key = "x" THEN Num(8) ELSE Str(2)

AnimPool ==
    { [ target |-> 1,
        keys |-> ks,
        startVals |-> [j \in 1 .. Len(ks) |-> StartOf(ks[j])],
        endVals |-> [j \in 1 .. Len(ks) |-> EndOf(ks[j])],
        duration |-> d, delay |-> dl, easing |-> e, completed |-> FALSE ] :
      ks \in KeyLists, d \in Durations, dl \in Delays, e \in Easings }

AnimLists ==
    { << >> } \cup { <<a>> : a \in AnimPool }
              \cup { <<a, b>> : a \in AnimPool, b \in AnimPool }

InitFrame ==
    /\ targets = << >>
    /\ gen = NoGen
    /\ objs = NoObjects
    /\ anims \in AnimLists
    /\ op = "init"
    /\ frameTime = 0
    /\ frameStart = 0
    /\ batch = << >>
    /\ prepArgs = NoCall
    /\ prepResult = NoResult
    /\ loops = << >>
    /\ raf = {}
    /\ nextRafId = 1
    /\ microtasks = << >>
    /\ clock = 0
    /\ nav = InitialNav

CallProcessAnimationFrame(currentTime, masterStartTime) ==
    LET r == processAnimationFrame(anims, currentTime, masterStartTime)
    IN  /\ anims' = r.animations
        /\ batch' = r.batchUpdates
        /\ frameTime' = currentTime
        /\ frameStart' = masterStartTime
        /\ op' = "processAnimationFrame"
        /\ UNCHANGED << gen, targets, objs, prepArgs, prepResult, loops, raf,
                        nextRafId, microtasks, clock, nav >>

NextFrame ==
    \E currentTime \in FrameTimes, masterStartTime \in StartTimes :
        CallProcessAnimationFrame(currentTime, masterStartTime)

SpecFrame == InitFrame /\ [][NextFrame]_vars

\* the batch entry computed for animation i, if any
EntriesOf(batchUpdates, i) ==
    { j \in 1 .. Len(batchUpdates) : batchUpdates[j].anim = i }

\* elapsed of animation a in the frame (currentTime, masterStartTime)
ElapsedOf(a, currentTime, masterStartTime) ==
    currentTime - masterStartTime - a.delay

\* C1: delay gating.  In every processAnimationFrame call, an animation
\* that is not completed and for which currentTime - masterStartTime -
\* delay < 0 gets no batch entry and stays not completed.
C1_DelayGating ==
    [][ op' = "processAnimationFrame" =>
          \A i \in 1 .. Len(anims) :
              ( ~anims[i].completed
                /\ ElapsedOf(anims[i], frameTime', frameStart') < 0 )
              => ( ~anims'[i].completed /\ EntriesOf(batch', i) = {} )
      ]_vars

\* a frame in which one animation is still gated by its delay while
\* another one emitted an entry
C1_Witness ==
    /\ op = "processAnimationFrame"
    /\ \E i, j \in 1 .. Len(anims) :
          /\ ~anims[i].completed
          /\ ElapsedOf(anims[i], frameTime, frameStart) < 0
          /\ EntriesOf(batch, i) = {}
          /\ EntriesOf(batch, j) # {}

\* C2: completion with exact end values.  A not completed animation with
\* duration > 0 is marked completed by a frame exactly when
\* currentTime - masterStartTime - delay >= duration, and the batch entry
\* of that frame holds endVals[q] under keys[q] for every q and nothing
\* else, for every easing function.
C2_ExactCompletion ==
    [][ op' = "processAnimationFrame" =>
          \A i \in 1 .. Len(anims) :
              ( ~anims[i].completed /\ anims[i].duration > 0 )
              => /\ anims'[i].completed
                      <=> ( ElapsedOf(anims[i], frameTime', frameStart')
                              >= anims[i].duration )
                 /\ anims'[i].completed =>
                      /\ Cardinality(EntriesOf(batch', i)) = 1
                      /\ \A j \in EntriesOf(batch', i) :
                            /\ batch'[j].target = anims[i].target
                            /\ Len(batch'[j].updates) = Len(anims[i].keys)
                            /\ \A q \in 1 .. Len(anims[i].keys) :
                                  Get(batch'[j].updates, anims[i].keys[q])
                                      = anims[i].endVals[q]
      ]_vars

\* an animation whose easing function ends below 1 was completed by the
\* last frame and its entry holds the end values
C2_Witness ==
    /\ op = "processAnimationFrame"
    /\ \E i \in 1 .. Len(anims) :
          /\ anims[i].completed
          /\ anims[i].duration > 0
          /\ anims[i].easing = "Half"
          /\ anims[i].keys # << >>
          /\ \E j \in EntriesOf(batch, i) :
                Get(batch[j].updates, "x") = Num(8)

\* C3: completed is monotonic.  Once an animation is completed it stays
\* completed over every later processAnimationFrame call, whatever its
\* times, and no later call emits a batch entry for it.
C3_CompletedMonotonic ==
    [][ \A i \in 1 .. Len(anims) :
            anims[i].completed
            => ( anims'[i].completed /\ EntriesOf(batch', i) = {} )
      ]_vars

\* a completed animation went through a later frame whose time lies
\* before its end, and that frame emitted nothing for it
C3_Witness ==
    /\ op = "processAnimationFrame"
    /\ \E i \in 1 .. Len(anims) :
          /\ anims[i].completed
          /\ anims[i].duration > 0
          /\ ElapsedOf(anims[i], frameTime, frameStart) < anims[i].duration
          /\ ElapsedOf(anims[i], frameTime, frameStart) >= 0
          /\ EntriesOf(batch, i) = {}

\* the updates emitted for animation i, in order, without the bookkeeping
UpdatesFor(batchUpdates, i) ==
    LET F[j \in 0 .. Len(batchUpdates)] ==
            IF j = 0 THEN << >>
            ELSE IF batchUpdates[j].anim = i
            THEN Append(F[j - 1], [target |-> batchUpdates[j].target,
                                   updates |-> batchUpdates[j].updates])
            ELSE F[j - 1]
    IN  F[Len(batchUpdates)]

\* C11: no cross-target coupling.  In every processAnimationFrame call on
\* a list, the completed flag and the emitted updates of each animation
\* are those of the same call on that animation alone; over a sequence of
\* frames the animation therefore evolves as it does alone.
C11_NoCoupling ==
    [][ op' = "processAnimationFrame" =>
          \A i \in 1 .. Len(anims) :
              LET alone == processAnimationFrame(<< anims[i] >>, frameTime', frameStart')
              IN  /\ anims'[i] = alone.animations[1]
                  /\ UpdatesFor(batch', i) = UpdatesFor(alone.batchUpdates, 1)
      ]_vars

\* a frame of two animations with different delays and durations that
\* completed the second one while the first one, not yet at its end,
\* emitted interpolated values
C11_Witness ==
    /\ op = "processAnimationFrame"
    /\ Len(anims) = 2
    /\ anims[1].delay # anims[2].delay
    /\ anims[1].duration # anims[2].duration
    /\ ~anims[1].completed
    /\ anims[2].completed
    /\ EntriesOf(batch, 1) # {}
    /\ EntriesOf(batch, 2) # {}


\* C24: in every frame, an animation that is not completed and not gated
\* gets exactly one batch entry whatever its easing does; it is completed
\* exactly when its progress has reached 1; short of that its values are
\* interpolated at easing(progress, 0, 1, 1), and at progress itself when
\* the easing is absent or raises.
C24_EasingNeverAborts ==
    [][ op' = "processAnimationFrame" =>
          \A i \in 1 .. Len(anims) :
              ( ~anims[i].completed /\ ElapsedOf(anims[i], frameTime', frameStart') >= 0 ) =>
                  LET progress == Progress(ElapsedOf(anims[i], frameTime', frameStart'),
                                           anims[i].duration)
                      eased == IF anims[i].easing \in {"undefined", "Throws"} THEN progress
                               ELSE CallEasing(anims[i].easing, progress)
                  IN  /\ Cardinality(EntriesOf(batch', i)) = 1
                      /\ anims'[i].completed <=> ReachedEnd(progress)
                      /\ \A j \in EntriesOf(batch', i) :
                            \A q \in 1 .. Len(anims[i].keys) :
                                Get(batch'[j].updates, anims[i].keys[q]) =
                                    IF ReachedEnd(progress) THEN anims[i].endVals[q]
                                    ELSE lerp(anims[i].startVals[q], anims[i].endVals[q], eased)
      ]_vars

\* C24 witness: a frame of two animations; the first one's easing raises
\* and it is half way, with the value of the linear interpolation; the
\* second one was completed by the same frame
C24_Witness ==
    /\ op = "processAnimationFrame"
    /\ Len(anims) = 2
    /\ anims[1].easing = "Throws"
    /\ anims[1].duration = 2
    /\ ElapsedOf(anims[1], frameTime, frameStart) = 1
    /\ ~anims[1].completed
    /\ \E j \in EntriesOf(batch, 1) : Get(batch[j].updates, "x") = Num(4)
    /\ anims[2].completed
    /\ EntriesOf(batch, 2) # {}


C27_NegativeDelay ==
    [][ op' = "processAnimationFrame" =>
          \A i \in 1 .. Len(anims) :
              ( ~anims[i].completed /\ anims[i].delay < 0 /\ frameTime' >= frameStart' )
              => /\ Cardinality(EntriesOf(batch', i)) = 1
                 /\ \A j \in EntriesOf(batch', i) : batch'[j].target = anims[i].target
      ]_vars

\* C27 witness: the frame at masterStartTime itself has emitted an entry
\* for an animation with a negative delay, which is under way, while an
\* animation with a positive delay is still gated
C27_Witness ==
    /\ op = "processAnimationFrame"
    /\ frameTime = frameStart
    /\ \E i, k \in 1 .. Len(anims) :
          /\ anims[i].delay < 0
          /\ ~anims[i].completed
          /\ anims[i].keys # << >>
          /\ EntriesOf(batch, i) # {}
          /\ anims[k].delay > 0
          /\ EntriesOf(batch, k) = {}

\* C37: a not completed animation with duration 0 is marked completed by
\* the first frame with currentTime - masterStartTime - delay >= 0, 0
\* included, and the batch entry of that frame holds endVals[q] under
\* keys[q] for every q and nothing else.
C37_ZeroDurationInstant ==
    [][ op' = "processAnimationFrame" =>
          \A i \in 1 .. Len(anims) :
              ( /\ ~anims[i].completed
                /\ anims[i].duration = 0
                /\ ElapsedOf(anims[i], frameTime', frameStart') >= 0 )
              => /\ anims'[i].completed
                 /\ Cardinality(EntriesOf(batch', i)) = 1
                 /\ \A j \in EntriesOf(batch', i) :
                       /\ Len(batch'[j].updates) = Len(anims[i].keys)
                       /\ \A q \in 1 .. Len(anims[i].keys) :
                             Get(batch'[j].updates, anims[i].keys[q])
                                 = anims[i].endVals[q]
      ]_vars

\* C37 witness: a frame with elapsed = 0 has processed an animation with
\* duration 0: the animation is not completed and its entry does not hold
\* the end value of x
C37_Witness ==
    /\ op = "processAnimationFrame"
    /\ \E i \in 1 .. Len(anims) :
          /\ anims[i].duration = 0
          /\ ~anims[i].completed
          /\ ElapsedOf(anims[i], frameTime, frameStart) = 0
          /\ \E j \in EntriesOf(batch, i) : \E q \in 1 .. Len(anims[i].keys) :
                /\ anims[i].keys[q] = "x"
                /\ Get(batch[j].updates, "x") # anims[i].endVals[q]

\* C38: a call of processAnimationFrame leaves the target objects as they
\* are; of the animations it changes nothing but the completed flag, and
\* that only for an animation it emits an entry for; keys, startVals,
\* endVals, duration, delay, easing and target stay as they were.
C38_FlagOnly ==
    [][ op' = "processAnimationFrame" =>
          /\ objs' = objs
          /\ Len(anims') = Len(anims)
          /\ \A i \in 1 .. Len(anims) :
                /\ [anims'[i] EXCEPT !.completed = anims[i].completed] = anims[i]
                /\ anims'[i].completed # anims[i].completed
                   => EntriesOf(batch', i) # {}
      ]_vars

\* C38 witness: a frame has completed one animation and emitted an
\* interpolated value for another, and the objects hold no property
C38_Witness ==
    /\ op = "processAnimationFrame"
    /\ objs = NoObjects
    /\ \E i, j \in 1 .. Len(anims) :
          /\ anims[i].completed
          /\ anims[i].keys # << >>
          /\ EntriesOf(batch, i) # {}
          /\ ~anims[j].completed
          /\ anims[j].keys # << >>
          /\ \E e \in EntriesOf(batch, j) :
                /\ Get(batch[e].updates, "x") # Num(0)
                /\ Get(batch[e].updates, "x") # Num(8)

----------------------------------------------------------------------------
(* SpecPrep: a caller holds AnimationTargets and calls the preparation     *)
(* functions and the helpers on them directly.                             *)

MaxSteps == 2           \* the first target declares at most MaxSteps steps

Obj1(k1, v1) == << [k |-> k1, v |-> v1] >>
Obj2(k1, v1, k2, v2) == << [k |-> k1, v |-> v1], [k |-> k2, v |-> v2] >>

\* an AnimationStep
Step(properties, duration, delay, easing) ==
    [properties |-> properties, duration |-> duration, delay |-> delay, easing |-> easing]

\* the steps a target may declare: with and without options of their own,
\* with keys that collide between steps, and with no properties at all
StepPool ==
    { Step(Obj1("x", Num(4)), << >>, << >>, "undefined"),
      Step(Obj2("y", Str(2), "x", Num(8)), <<MaxDuration>>, <<MaxDelay>>, "Half"),
      Step(<< >>, <<0>>, <<-1>>, "undefined"),
      Step(Obj1("x", Num(8)), << >>, <<MaxDelay>>, "Throws") }

RECURSIVE SeqsUpTo(_, _)
SeqsUpTo(S, n) ==
    IF n = 0 THEN { << >> }
    ELSE LET shorter == SeqsUpTo(S, n - 1)
         IN  shorter \cup { Append(q, e) : q \in shorter, e \in S }

InitialStates == { Obj2("x", Num(0), "y", Str(1)), Obj1("x", Num(0)) }

\* first target: object 1, any steps; second target: object 2, at most
\* one step, so that the two step arrays differ in length
FirstTargets ==
    { [target |-> 1, initialState |-> st, steps |-> sq] :
        st \in InitialStates, sq \in SeqsUpTo(StepPool, MaxSteps) }

SecondTargets ==
    { [target |-> 2, initialState |-> Obj1("x", Num(0)), steps |-> sq] :
        sq \in { << >>,
                 << Step(Obj1("x", Num(8)), <<1>>, << >>, "undefined") >> } }

TargetLists ==
    { << >> } \cup { <<a>> : a \in FirstTargets }
              \cup { <<a, b>> : a \in FirstTargets, b \in SecondTargets }

\* the live objects before the engine has touched them: x holds a value of
\* its own and y is not set
FreshObjects == [o \in ObjIds |-> Obj1("x", Num(1))]

StepIndices == -1 .. MaxSteps
DefaultDurations == {MaxDuration + 1}
DefaultEasings == {"undefined", "Linear"}

InitPrep ==
    /\ targets \in TargetLists
    /\ gen = NoGen
    /\ objs = FreshObjects
    /\ anims = << >>
    /\ op = "init"
    /\ frameTime = 0
    /\ frameStart = 0
    /\ batch = << >>
    /\ prepArgs = NoCall
    /\ prepResult = NoResult
    /\ loops = << >>
    /\ raf = {}
    /\ nextRafId = 1
    /\ microtasks = << >>
    /\ clock = 0
    /\ nav = InitialNav

CallPrepareAnimations(stepIndex, defaultDuration, defaultEasing) ==
    /\ op' = "prepareAnimations"
    /\ prepArgs' = [stepIndex |-> stepIndex, defaultDuration |-> defaultDuration, defaultEasing |-> defaultEasing]
    /\ prepResult' = prepareAnimations(targets, objs, stepIndex, defaultDuration, defaultEasing)
    /\ UNCHANGED << gen, targets, objs, anims, frameTime, frameStart, batch, loops,
                    raf, nextRafId, microtasks, clock, nav >>

CallPrepareReverseAnimations(stepIndex, defaultDuration, defaultEasing) ==
    /\ op' = "prepareReverseAnimations"
    /\ prepArgs' = [stepIndex |-> stepIndex, defaultDuration |-> defaultDuration, defaultEasing |-> defaultEasing]
    /\ prepResult' = prepareReverseAnimations(targets, objs, stepIndex, defaultDuration, defaultEasing)
    /\ targets' = TargetsAfterReverse(targets, stepIndex)
    /\ UNCHANGED << gen, objs, anims, frameTime, frameStart, batch, loops,
                    raf, nextRafId, microtasks, clock, nav >>

CallInitializeTargets ==
    /\ op' = "initializeTargets"
    /\ objs' = initializeTargets(targets, objs)
    /\ UNCHANGED << gen, targets, anims, frameTime, frameStart, batch, prepArgs,
                    prepResult, loops, raf, nextRafId, microtasks, clock, nav >>

CallApplyStepEndState(stepIndex) ==
    /\ stepIndex >= 0
    /\ op' = "applyStepEndState"
    /\ objs' = applyStepEndState(targets, objs, stepIndex)
    /\ UNCHANGED << gen, targets, anims, frameTime, frameStart, batch, prepArgs,
                    prepResult, loops, raf, nextRafId, microtasks, clock, nav >>

NextPrep ==
    \/ \E k \in StepIndices, dd \in DefaultDurations, de \in DefaultEasings :
          CallPrepareAnimations(k, dd, de)
    \/ \E k \in StepIndices, dd \in DefaultDurations, de \in DefaultEasings :
          CallPrepareReverseAnimations(k, dd, de)
    \/ CallInitializeTargets
    \/ \E k \in StepIndices : CallApplyStepEndState(k)

SpecPrep == InitPrep /\ [][NextPrep]_vars

\* the targets, by position, that have a step stepIndex
HavingStep(tg, stepIndex) ==
    { i \in 1 .. Len(tg) : stepIndex >= 0 /\ stepIndex < Len(tg[i].steps) }

\* position in the result of the animation of the i-th target
PositionOf(tg, stepIndex, i) ==
    Cardinality({ h \in HavingStep(tg, stepIndex) : h <= i })

\* animation a is what C8 describes for target t at step stepIndex
DescribesStep(a, t, live, stepIndex, defaultDuration, defaultEasing) ==
    LET step == t.steps[stepIndex + 1]
    IN  /\ a.target = t.target
        /\ Len(a.keys) = Len(step.properties)
        /\ Len(a.startVals) = Len(a.keys)
        /\ Len(a.endVals) = Len(a.keys)
        /\ \A q \in 1 .. Len(step.properties) :
              /\ a.keys[q] = step.properties[q].k
              /\ a.startVals[q] = Get(live, step.properties[q].k)
              /\ a.endVals[q] = step.properties[q].v
        /\ a.duration = (IF step.duration = << >> THEN defaultDuration ELSE step.duration[1])
        /\ a.delay = (IF step.delay = << >> THEN 0 ELSE step.delay[1])
        /\ a.easing = (IF step.easing = "undefined" THEN defaultEasing ELSE step.easing)
        /\ a.completed = FALSE

\* the last prepareAnimations call returned what C8 describes
ReturnedForwardAnimations ==
    /\ ~prepResult.threw
    /\ Len(prepResult.value) = Cardinality(HavingStep(targets, prepArgs.stepIndex))
    /\ \A i \in HavingStep(targets, prepArgs.stepIndex) :
          DescribesStep(prepResult.value[PositionOf(targets, prepArgs.stepIndex, i)],
                        targets[i], objs[targets[i].target], prepArgs.stepIndex,
                        prepArgs.defaultDuration, prepArgs.defaultEasing)

\* C8: prepareAnimations(targets, k, defaultDuration, defaultEasing)
\* returns, in targets order, exactly one ProcessedAnimation per target
\* that has a step k, with keys the step's property names, startVals the
\* live values, endVals the step's values, duration / delay / easing the
\* step's own or else defaultDuration / 0 / defaultEasing, completed false,
\* and keys, startVals, endVals of one length.
C8_ForwardPrepare ==
    op = "prepareAnimations" => ReturnedForwardAnimations

\* C8 for the step indices from 0 on, where the call returns
C8_ForwardPrepareFromZero ==
    (op = "prepareAnimations" /\ prepArgs.stepIndex >= 0)
    => ReturnedForwardAnimations

\* a call that returned one animation for the first target and none for
\* the second, with a live start value that is not the initial state's
C8_Witness ==
    /\ op = "prepareAnimations"
    /\ Len(targets) = 2
    /\ HavingStep(targets, prepArgs.stepIndex) = {1}
    /\ Len(prepResult.value) = 1
    /\ prepResult.value[1].keys = <<"y", "x">>
    /\ prepResult.value[1].startVals = <<Undefined, Num(4)>>

\* C9: prepareAnimations with a stepIndex that is out of bounds for a
\* target (at or beyond steps.length, or negative) raises no error and
\* returns no ProcessedAnimation for that target.
C9_OutOfBoundsSkipped ==
    op = "prepareAnimations" =>
        /\ ~prepResult.threw
        /\ \A i \in 1 .. Len(targets) :
              ( prepArgs.stepIndex < 0 \/ prepArgs.stepIndex >= Len(targets[i].steps) )
              => \A j \in 1 .. Len(prepResult.value) :
                    prepResult.value[j].target # targets[i].target

\* the key is declared by initialState or by one of the steps 0..stepIndex
InCumulativeState(t, stepIndex, key) ==
    \/ \E q \in 1 .. Len(t.initialState) : t.initialState[q].k = key
    \/ \E n \in 1 .. Len(t.steps) :
          /\ n - 1 <= stepIndex
          /\ \E q \in 1 .. Len(t.steps[n].properties) : t.steps[n].properties[q].k = key

\* the value of key in S_k: that of the last step up to stepIndex that
\* declares it, or else that of initialState
CumulativeValue(t, stepIndex, key) ==
    LET declaring == { n \in 1 .. Len(t.steps) :
                          /\ n - 1 <= stepIndex
                          /\ \E q \in 1 .. Len(t.steps[n].properties) :
                                t.steps[n].properties[q].k = key }
    IN  IF declaring = {} THEN Get(t.initialState, key)
        ELSE LET last == CHOOSE n \in declaring : \A other \in declaring : other <= n
             IN  Get(t.steps[last].properties, key)

AllKeys == {"x", "y"}

\* C10: prepareReverseAnimations(targets, k, ...) returns one
\* ProcessedAnimation per target; its keys are the keys of S_k =
\* initialState overlaid with the properties of steps 0..k in order (the
\* later step wins), its endVals are S_k's values, its startVals the live
\* values; for k = -1 the endVals are those of initialState.
C10_ReversePrepare ==
    op = "prepareReverseAnimations" =>
        /\ ~prepResult.threw
        /\ Len(prepResult.value) = Len(targets)
        /\ \A i \in 1 .. Len(targets) :
              LET a == prepResult.value[i]
                  t == targets[i]
              IN  /\ a.target = t.target
                  /\ Len(a.startVals) = Len(a.keys)
                  /\ Len(a.endVals) = Len(a.keys)
                  /\ \A key \in AllKeys :
                        Cardinality({ q \in 1 .. Len(a.keys) : a.keys[q] = key })
                            = IF InCumulativeState(t, prepArgs.stepIndex, key) THEN 1 ELSE 0
                  /\ \A q \in 1 .. Len(a.keys) :
                        /\ a.endVals[q] = CumulativeValue(t, prepArgs.stepIndex, a.keys[q])
                        /\ a.startVals[q] = Get(objs[t.target], a.keys[q])
                  /\ prepArgs.stepIndex = -1 =>
                        /\ a.keys = ObjectKeys(t.initialState)
                        /\ \A q \in 1 .. Len(a.keys) : a.endVals[q] = t.initialState[q].v

\* a reverse prepare to step 1 of a target whose steps 0 and 1 both
\* declare x, while the live object holds other values
C10_Witness ==
    /\ op = "prepareReverseAnimations"
    /\ prepArgs.stepIndex = 1
    /\ Len(targets) >= 1
    /\ Len(targets[1].steps) = 2
    /\ Get(targets[1].steps[1].properties, "x") = Num(8)
    /\ Get(targets[1].steps[2].properties, "x") = Num(4)
    /\ Get(targets[1].initialState, "y") = Str(1)
    /\ prepResult.value[1].keys = <<"x", "y">>
    /\ prepResult.value[1].endVals = <<Num(4), Str(2)>>
    /\ prepResult.value[1].startVals = <<Num(0), Str(1)>>


\* C19: every ProcessedAnimation returned by prepareReverseAnimations has
\* the default duration, delay 0 and the default easing of the call,
\* whatever the steps declare.
C19_ReverseUsesDefaults ==
    op = "prepareReverseAnimations" =>
        \A i \in 1 .. Len(prepResult.value) :
            /\ prepResult.value[i].duration = prepArgs.defaultDuration
            /\ prepResult.value[i].delay = 0
            /\ prepResult.value[i].easing = prepArgs.defaultEasing

\* C19 witness: a reverse prepare to a step that declares a duration, a
\* delay and an easing of its own, all different from what is returned
C19_Witness ==
    /\ op = "prepareReverseAnimations"
    /\ Len(targets) >= 1
    /\ prepArgs.stepIndex >= 0
    /\ prepArgs.stepIndex < Len(targets[1].steps)
    /\ targets[1].steps[prepArgs.stepIndex + 1].duration = << MaxDuration >>
    /\ targets[1].steps[prepArgs.stepIndex + 1].delay = << MaxDelay >>
    /\ targets[1].steps[prepArgs.stepIndex + 1].easing = "Half"
    /\ prepResult.value[1].duration = MaxDuration + 1
    /\ prepResult.value[1].delay = 0
    /\ prepResult.value[1].easing = "Linear"

----------------------------------------------------------------------------
(* Animation loop driver (utils/animationEngine, createAnimationLoop).     *)
(* A closure is a record of loops: its animations, masterStartTime,        *)
(* frameId and lastUpdateTime, which callback it completes with            *)
(* (onComplete: "spy" counts the calls, "nav" is the callback of           *)
(* animateToStep), the number of onComplete calls and of processed frames, *)
(* and whether cancel() was called on it.                                  *)
(* The scheduler state the closures act on is passed as a record           *)
(* [loops, raf, nextRafId, microtasks, nav].                               *)

UpdateThreshold == 2    \* updateThreshold handed to createAnimationLoop

\* !masterStartTime: null and 0 are both falsy
NoMasterStart(loop) == loop.masterStartTime = << >> \/ loop.masterStartTime = <<0>>

\* frameId = requestAnimationFrame(animate)
Reschedule(st, L) ==
    [st EXCEPT !.loops[L].frameId = <<st.nextRafId>>,
               !.raf = @ \cup { [id |-> st.nextRafId, loop |-> L] },
               !.nextRafId = @ + 1]

\* variant: the updates of a frame are never written
applyBatchUpdates_Dropped(st, batchUpdates) == st

\* applyBatchUpdates: nothing for an empty batch, else one deferred write
applyBatchUpdates(st, batchUpdates) ==
    IF batchUpdates = << >> THEN st
    ELSE [st EXCEPT !.microtasks = Append(@, batchUpdates)]

\* variant: the callback of the navigation leaves isAnimating as it is
onComplete_KeepsAnimating(st, L) == [st EXCEPT !.loops[L].completeCalls = @ + 1]

\* the callback handed to createAnimationLoop
onComplete(st, L) ==
    LET counted == [st EXCEPT !.loops[L].completeCalls = @ + 1]
    IN  IF st.loops[L].onComplete = "nav"
        THEN [counted EXCEPT !.nav.isAnimating = FALSE]
        ELSE counted

\* if (frameId) { cancelAnimationFrame(frameId); frameId = null; }
ClearFrame(st, L) ==
    IF st.loops[L].frameId # << >> /\ st.loops[L].frameId # <<0>>
    THEN [st EXCEPT !.raf = { c \in @ : c.id # st.loops[L].frameId[1] },
                    !.loops[L].frameId = << >>]
    ELSE st

\* variant: the throttle never lets a frame through
Throttled_Always(loop, currentTime) == TRUE

\* variant: no tick is throttled
Throttled_Never(loop, currentTime) == FALSE

\* the throttle test of animate
Throttled(loop, currentTime) ==
    currentTime - loop.lastUpdateTime < loop.updateThreshold

\* variant: the loop keeps requesting frames after completion
Finish_KeepsRunning(st, L) == Reschedule(onComplete(st, L), L)

\* what animate does once all animations are completed
Finish(st, L) == ClearFrame(onComplete(st, L), L)

\* animate(currentTime) of closure L
animate(st, L, currentTime) ==
    LET anchored ==
            IF NoMasterStart(st.loops[L])
            THEN [st EXCEPT !.loops[L].masterStartTime = <<currentTime>>]
            ELSE st
        loop == anchored.loops[L]
    IN  IF Throttled(loop, currentTime) THEN Reschedule(anchored, L)
        ELSE
          LET r == processAnimationFrame(loop.animations, currentTime, loop.masterStartTime[1])
              processed ==
                  applyBatchUpdates(
                      [anchored EXCEPT !.loops[L].lastUpdateTime = currentTime,
                                       !.loops[L].animations = r.animations,
                                       !.loops[L].frames = @ + 1],
                      r.batchUpdates)
          IN  IF areAllAnimationsCompleted(r.animations)
              THEN Finish(processed, L)
              ELSE Reschedule(processed, L)

\* createAnimationLoop(animations, onComplete, updateThreshold): the new
\* closure is appended to loops and its first frame is requested
createAnimationLoop(st, animations, callback, updateThreshold) ==
    [st EXCEPT !.loops = Append(@,
                    [ animations |-> animations,
                      masterStartTime |-> << >>,
                      frameId |-> <<st.nextRafId>>,
                      lastUpdateTime |-> 0,
                      updateThreshold |-> updateThreshold,
                      onComplete |-> callback,
                      completeCalls |-> 0,
                      frames |-> 0,
                      cancelled |-> FALSE ]),
               !.raf = @ \cup { [id |-> st.nextRafId, loop |-> Len(st.loops) + 1] },
               !.nextRafId = @ + 1]

\* variant: cancel() leaves the requested frame in place
cancel_LeavesFrame(st, L) == [st EXCEPT !.loops[L].cancelled = TRUE]

\* variant: cancel() also discards the writes that are queued
cancel_DropsWrites(st, L) ==
    [ClearFrame(st, L) EXCEPT !.loops[L].cancelled = TRUE, !.microtasks = << >>]

\* cancel() of closure L
cancel(st, L) ==
    [ClearFrame(st, L) EXCEPT !.loops[L].cancelled = TRUE]

\* One frame of the host: the callbacks that were scheduled before the
\* frame run in the order of their handles; what they schedule waits for
\* the next frame.
RECURSIVE RunCallbacks(_, _, _)
RunCallbacks(st, pending, currentTime) ==
    IF pending = {} THEN st
    ELSE LET c == CHOOSE x \in pending : \A y \in pending : x.id <= y.id
         IN  IF c \in st.raf
             THEN RunCallbacks(animate([st EXCEPT !.raf = @ \ {c}], c.loop, currentTime),
                               pending \ {c}, currentTime)
             ELSE RunCallbacks(st, pending \ {c}, currentTime)

Scheduler == [loops |-> loops, raf |-> raf, nextRafId |-> nextRafId, microtasks |-> microtasks, nav |-> nav]

\* the scheduler state st becomes the next state
Becomes(st) ==
    /\ loops' = st.loops
    /\ raf' = st.raf
    /\ nextRafId' = st.nextRafId
    /\ microtasks' = st.microtasks
    /\ nav' = st.nav

----------------------------------------------------------------------------
(* SpecLoop: one loop made by createAnimationLoop with a counting          *)
(* callback; the host delivers frames with increasing timestamps, the      *)
(* deferred writes run, and the caller may call cancel().                  *)

MaxStart == 1           \* the first frame comes at a timestamp in 0..MaxStart

\* by this timestamp every animation of the pool has reached its end and
\* one more unthrottled frame has come
Horizon == MaxStart + MaxDelay + MaxDuration + UpdateThreshold

LoopPool ==
    { [ target |-> 1, keys |-> <<"x">>, startVals |-> <<Num(1)>>, endVals |-> <<Num(8)>>,
        duration |-> d, delay |-> dl, easing |-> "Half", completed |-> FALSE ] :
      d \in Durations, dl \in Delays }

LoopAnimLists ==
    { << >> } \cup { <<a>> : a \in LoopPool }
              \cup { <<a, b>> : a \in LoopPool, b \in LoopPool }

NoScheduler == [loops |-> << >>, raf |-> {}, nextRafId |-> 1, microtasks |-> << >>, nav |-> InitialNav]

InitLoop ==
    /\ targets = << >>
    /\ gen = NoGen
    /\ objs = FreshObjects
    /\ anims = << >>
    /\ op = "createAnimationLoop"
    /\ frameTime = 0
    /\ frameStart = 0
    /\ batch = << >>
    /\ prepArgs = NoCall
    /\ prepResult = NoResult
    /\ clock = -1
    /\ \E animations \in LoopAnimLists :
          LET st == createAnimationLoop(NoScheduler, animations, "spy", UpdateThreshold)
          IN  /\ loops = st.loops
              /\ raf = st.raf
              /\ nextRafId = st.nextRafId
              /\ microtasks = st.microtasks
              /\ nav = st.nav

\* the host delivers the frame with timestamp t
Frame(t) ==
    /\ t > clock
    /\ (\E c \in raf : NoMasterStart(loops[c.loop])) => t <= MaxStart
    /\ clock' = t
    /\ op' = "frame"
    /\ \E st \in { RunCallbacks(Scheduler, raf, t) } : Becomes(st)
    /\ UNCHANGED << gen, targets, objs, anims, frameTime, frameStart, batch, prepArgs, prepResult >>

\* the oldest deferred write runs
RunMicrotask ==
    /\ microtasks # << >>
    /\ objs' = WriteBatch(objs, Head(microtasks))
    /\ microtasks' = Tail(microtasks)
    /\ op' = "microtask"
    /\ UNCHANGED << gen, targets, anims, frameTime, frameStart, batch, prepArgs,
                    prepResult, loops, raf, nextRafId, clock, nav >>

\* the caller calls cancel() on closure L
CallCancel(L) ==
    /\ op' = "cancel"
    /\ Becomes(cancel(Scheduler, L))
    /\ UNCHANGED << gen, targets, objs, anims, frameTime, frameStart, batch, prepArgs, prepResult, clock >>

NextLoop ==
    \/ \E t \in 0 .. Horizon : Frame(t)
    \/ RunMicrotask
    \/ \E L \in 1 .. Len(loops) : CallCancel(L)

SpecLoop == InitLoop /\ [][NextLoop]_vars

\* ENABLED of \E t \in 0 .. Horizon : Frame(t), from the guards of Frame
FrameEnabled ==
    clock < (IF \E c \in raf : NoMasterStart(loops[c.loop]) THEN MaxStart ELSE Horizon)

\* the host keeps delivering frames and runs the deferred writes.  Frame
\* is the only action that advances the clock, so weak fairness of Frame
\* is written out by its definition, []<>~ENABLED \/ []<><<step>>.
SpecLoopFair ==
    /\ SpecLoop
    /\ ( []<>(~FrameEnabled) \/ []<><<clock' > clock>>_clock )
    /\ WF_vars(RunMicrotask)

\* the callbacks still scheduled for closure L
ScheduledFor(callbacks, L) == { c \in callbacks : c.loop = L }

\* C4: for a loop that is never cancelled, onComplete is invoked exactly
\* once (never twice), in the first processed frame after which every
\* animation is completed, and after it no frame is scheduled or processed.
C4_CompletesOnce ==
    [][ \A L \in 1 .. Len(loops) :
          ~loops'[L].cancelled =>
            /\ loops'[L].completeCalls <= 1
            /\ loops'[L].completeCalls - loops[L].completeCalls =
                  ( IF loops'[L].frames > loops[L].frames
                       /\ areAllAnimationsCompleted(loops'[L].animations)
                    THEN 1 ELSE 0 )
            /\ loops'[L].completeCalls = 1 => ScheduledFor(raf', L) = {}
            /\ loops[L].completeCalls = 1 => loops'[L].frames = loops[L].frames
      ]_vars

\* a loop that was never cancelled completed in its second or later
\* processed frame, and frames came after the completion
C4_Witness ==
    /\ loops[1].completeCalls = 1
    /\ ~loops[1].cancelled
    /\ loops[1].frames >= 2
    /\ clock > loops[1].lastUpdateTime
    /\ raf = {}

\* C5: if cancel() is called before the loop has invoked onComplete, then
\* onComplete is never invoked afterwards and no later frame is processed,
\* however far the clock advances.
C5_CancelIsFinal ==
    [][ \A L \in 1 .. Len(loops) :
          ( loops[L].cancelled /\ loops[L].completeCalls = 0 )
          => /\ loops'[L].completeCalls = 0
             /\ loops'[L].frames = loops[L].frames
             /\ loops'[L].animations = loops[L].animations
      ]_vars

\* a loop was cancelled in mid-flight, before completion, and the host
\* has delivered frames up to the horizon since
C5_Witness ==
    /\ loops[1].cancelled
    /\ loops[1].completeCalls = 0
    /\ loops[1].frames >= 1
    /\ ~areAllAnimationsCompleted(loops[1].animations)
    /\ clock = Horizon

\* C6: liveness of the loop.  If every animation has duration > 0 and the
\* host keeps delivering frames with increasing timestamps, the loop is
\* eventually completed (onComplete invoked, every animation completed)
\* unless it is cancelled.
C6_LoopTerminates ==
    ( \A i \in 1 .. Len(loops[1].animations) : loops[1].animations[i].duration > 0 )
    => <>( \/ loops[1].cancelled
           \/ ( loops[1].completeCalls = 1
                /\ areAllAnimationsCompleted(loops[1].animations) ) )

\* a loop of two animations with positive durations and different delays
\* ran through a throttled frame and completed without being cancelled
C6_Witness ==
    /\ Len(loops[1].animations) = 2
    /\ \A i \in 1 .. 2 : loops[1].animations[i].duration > 0
    /\ loops[1].animations[1].delay # loops[1].animations[2].delay
    /\ ~loops[1].cancelled
    /\ loops[1].completeCalls = 1
    /\ areAllAnimationsCompleted(loops[1].animations)
    /\ nextRafId > loops[1].frames + 1


\* C20: the first tick of a loop (also a throttled one) sets
\* masterStartTime to its timestamp, and no later step changes it.
C20_MasterStartFixed ==
    [][ \A L \in 1 .. Len(loops) :
          /\ ( op' = "frame" /\ loops[L].masterStartTime = << >>
               /\ \E c \in raf : c.loop = L )
             => loops'[L].masterStartTime = << clock' >>
          /\ loops[L].masterStartTime # << >>
             => loops'[L].masterStartTime = loops[L].masterStartTime
      ]_vars


\* C21: a tick that comes less than updateThreshold after the last
\* processed tick of its loop only requests the next frame: it processes
\* no frame, queues no write and does not call onComplete; and a tick that
\* processes a frame comes at least updateThreshold after the last
\* processed one.
C21_Throttle ==
    [][ \A L \in 1 .. Len(loops) :
          ( op' = "frame" /\ \E c \in raf : c.loop = L ) =>
              /\ ( loops[L].frames >= 1
                   /\ clock' - loops[L].lastUpdateTime < loops[L].updateThreshold )
                 => /\ loops'[L] = [loops[L] EXCEPT !.frameId = << nextRafId >>]
                    /\ [id |-> nextRafId, loop |-> L] \in raf'
                    /\ microtasks' = microtasks
              /\ loops'[L].frames # loops[L].frames
                 => /\ clock' - loops[L].lastUpdateTime >= loops[L].updateThreshold
                    /\ loops'[L].lastUpdateTime = clock'
      ]_vars

\* C21 witness: a loop that has processed a frame has just been ticked
\* less than updateThreshold later and waits for its next frame
C21_Witness ==
    /\ op = "frame"
    /\ loops[1].frames >= 1
    /\ clock > loops[1].lastUpdateTime
    /\ clock - loops[1].lastUpdateTime < loops[1].updateThreshold
    /\ loops[1].completeCalls = 0
    /\ raf # {}
    /\ microtasks = << >>


\* the entries of batch b that write key of object o
Writers(b, o, key) ==
    { j \in 1 .. Len(b) : b[j].target = o /\ Get(b[j].updates, key) # Undefined }

\* C22: a tick leaves the live objects as they are; the tick that
\* processes a frame has finished every animation of the frame and queues
\* at most one write, whose entries follow the order of the animations
\* list; when the write runs, each key of each object holds the value of
\* the last entry that writes it, and is unchanged if none does.
C22_DeferredOrderedWrites ==
    [][ /\ op' = "frame" =>
              /\ objs' = objs
              /\ Len(microtasks') \in { Len(microtasks), Len(microtasks) + 1 }
              /\ Len(microtasks') > Len(microtasks) =>
                    LET b == microtasks'[Len(microtasks')]
                    IN  /\ loops'[1].frames = loops[1].frames + 1
                        /\ b # << >>
                        /\ \A j, k \in 1 .. Len(b) : j < k => b[j].anim < b[k].anim
                        /\ \A j \in 1 .. Len(b) : b[j].target = loops[1].animations[b[j].anim].target
        /\ op' = "microtask" =>
              LET b == Head(microtasks)
              IN  \A o \in ObjIds : \A key \in AllKeys :
                      LET writers == Writers(b, o, key)
                      IN  Get(objs'[o], key) =
                            IF writers = {} THEN Get(objs[o], key)
                            ELSE Get(b[CHOOSE j \in writers : \A k \in writers : k <= j].updates, key)
      ]_vars

\* C22 witness: a tick has processed a frame of two animations that write
\* different values to the same key of the same object; the write is
\* queued and the object still holds neither value
C22_Witness ==
    /\ op = "frame"
    /\ loops[1].frames >= 1
    /\ microtasks # << >>
    /\ Len(Head(microtasks)) = 2
    /\ Head(microtasks)[1].target = Head(microtasks)[2].target
    /\ Get(Head(microtasks)[1].updates, "x") # Get(Head(microtasks)[2].updates, "x")
    /\ Get(objs[1], "x") # Get(Head(microtasks)[1].updates, "x")
    /\ Get(objs[1], "x") # Get(Head(microtasks)[2].updates, "x")


\* C23: cancel() leaves a queued write in the queue and the live objects
\* as they are, and removes the pending frame; the queued write of a
\* cancelled loop stays queued until it runs, and when it runs every entry
\* of it is applied to the objects.
C23_CancelKeepsQueuedWrite ==
    [][ /\ op' = "cancel" =>
              /\ microtasks' = microtasks
              /\ objs' = objs
              /\ raf' = {}
        /\ ( loops[1].cancelled /\ microtasks # << >> ) =>
              \/ microtasks' = microtasks /\ objs' = objs
              \/ /\ op' = "microtask"
                 /\ microtasks' = Tail(microtasks)
                 /\ \A j \in 1 .. Len(Head(microtasks)) :
                       LET e == Head(microtasks)[j]
                       IN  \A q \in 1 .. Len(e.updates) :
                              Writers(Head(microtasks), e.target, e.updates[q].k) # {}
                              /\ \E k \in Writers(Head(microtasks), e.target, e.updates[q].k) :
                                    /\ k >= j
                                    /\ Get(objs'[e.target], e.updates[q].k)
                                          = Get(Head(microtasks)[k].updates, e.updates[q].k)
      ]_vars

\* C23 witness: the loop was cancelled before it completed, while a write
\* was queued; the write has just run and the object holds a value the
\* cancelled loop computed
C23_Witness ==
    /\ op = "microtask"
    /\ loops[1].cancelled
    /\ loops[1].completeCalls = 0
    /\ ~areAllAnimationsCompleted(loops[1].animations)
    /\ loops[1].frames >= 1
    /\ Get(objs[1], "x") # Get(FreshObjects[1], "x")
    /\ microtasks = << >>
    /\ raf = {}

\* C36: in the step in which the completion callback of a loop is
\* invoked, no write is left deferred and every key of every animation of
\* the loop holds its end value on the target object.
C36_CompleteAfterWrites ==
    [][ \A L \in 1 .. Len(loops) :
          loops'[L].completeCalls > loops[L].completeCalls
          => /\ microtasks' = << >>
             /\ \A i \in 1 .. Len(loops'[L].animations) :
                   LET anim == loops'[L].animations[i]
                   IN  \A q \in 1 .. Len(anim.keys) :
                          Get(objs'[anim.target], anim.keys[q]) = anim.endVals[q]
      ]_vars

\* C36 witness: the callback has been invoked in the last frame while the
\* write of the end values is still deferred and the object holds another
\* value
C36_Witness ==
    /\ op = "frame"
    /\ Len(loops) = 1
    /\ loops[1].completeCalls = 1
    /\ microtasks # << >>
    /\ \E i \in 1 .. Len(loops[1].animations) :
          LET anim == loops[1].animations[i]
          IN  \E q \in 1 .. Len(anim.keys) :
                 Get(objs[anim.target], anim.keys[q]) # anim.endVals[q]

----------------------------------------------------------------------------
(* Navigation synchronisation (composables/useKonvaAnimation).  The refs   *)
(* of the composable live in nav; a handler takes and returns the record   *)
(* [st, objs, tg] of the scheduler state, the live objects and the         *)
(* targets.  Times are in units of the model's clock; Date.now() is        *)
(* TimeOrigin + clock.                                                     *)

SkipThreshold == 1      \* options.skipThreshold
NavDuration == 1        \* options.defaultDuration
MaxLoops == 1           \* a call that would create more loops than this is not made

\* Date.now() when the clock is 0: wall-clock time is far above the threshold
TimeOrigin == SkipThreshold

\* options.defaultEasing
NavEasing == "Half"

RECURSIVE stopAllTweensFrom(_, _, _)
stopAllTweensFrom(st, tweens, i) ==
    IF i > Len(tweens) THEN st
    ELSE stopAllTweensFrom(cancel(st, tweens[i]), tweens, i + 1)

\* variant: the tweens are forgotten without being cancelled
stopAllTweens_Forgets(st) ==
    [st EXCEPT !.nav.activeTweens = << >>, !.nav.isAnimating = FALSE]

stopAllTweens(st) ==
    [stopAllTweensFrom(st, st.nav.activeTweens, 1) EXCEPT
        !.nav.activeTweens = << >>,
        !.nav.isAnimating = FALSE]

initializeTargetsWrapper(ns, tg) ==
    [ns EXCEPT !.st = [ns.st EXCEPT !.nav.currentStep = -1],
               !.objs = initializeTargets(tg, ns.objs)]

\* variant: only a forced call skips the animation
SkipsAnimation_ForcedOnly(forceSkip, timeSinceLastStep, stepIndex, currentStep) == forceSkip

\* the skip test of animateToStep
SkipsAnimation(forceSkip, timeSinceLastStep, stepIndex, currentStep) ==
    forceSkip \/ (timeSinceLastStep < SkipThreshold /\ stepIndex > currentStep)

\* the animated branch of animateToStep, after stopAllTweens
StartAnimation(ns, stopped, tg, stepIndex, now) ==
    LET currentStep == stopped.nav.currentStep
        animations ==
            IF stepIndex < currentStep
            THEN prepareReverseAnimations(tg, ns.objs, stepIndex, NavDuration, NavEasing).value
            ELSE prepareAnimations(tg, ns.objs, stepIndex, NavDuration, NavEasing).value
        started == [stopped EXCEPT !.nav.isAnimating = TRUE,
                                   !.nav.stepStartTime = now]
        made == createAnimationLoop(started, animations, "nav", UpdateThreshold)
        prepared ==
            IF stepIndex < currentStep
            THEN [ns EXCEPT !.tg = TargetsAfterReverse(tg, stepIndex)]
            ELSE ns
    IN  IF animations = << >>
        THEN [prepared EXCEPT !.st = [started EXCEPT !.nav.isAnimating = FALSE,
                                                     !.nav.currentStep = stepIndex]]
        ELSE [prepared EXCEPT !.st = [made EXCEPT !.nav.activeTweens = << Len(made.loops) >>,
                                                  !.nav.currentStep = stepIndex]]

\* variant: only a negative index is refused
OutOfRange_NegativeOnly(stepIndex, totalSteps) == stepIndex < 0

\* if (stepIndex < 0 || stepIndex >= totalSteps.value) return
OutOfRange(stepIndex, totalSteps) == stepIndex < 0 \/ stepIndex >= totalSteps

animateToStep(ns, tg, stepIndex, forceSkip, now) ==
    IF OutOfRange(stepIndex, calculateTotalSteps(tg)) THEN ns
    ELSE
      LET timeSinceLastStep == now - ns.st.nav.stepStartTime
          stopped == stopAllTweens(ns.st)
          currentStep == stopped.nav.currentStep
      IN  IF SkipsAnimation(forceSkip, timeSinceLastStep, stepIndex, currentStep)
          THEN [ns EXCEPT !.st = [stopped EXCEPT !.nav.currentStep = stepIndex,
                                                 !.nav.stepStartTime = now],
                          !.objs = applyStepsUpTo(tg, ns.objs, currentStep + 1, stepIndex)]
          ELSE IF stepIndex = currentStep
          THEN [ns EXCEPT !.st = [stopped EXCEPT !.nav.stepStartTime = now]]
          ELSE StartAnimation(ns, stopped, tg, stepIndex, now)

Min(a, b) == IF a <= b THEN a ELSE b
Abs(a) == IF a < 0 THEN 0 - a ELSE a

\* Math.min(newClicks - 1, totalSteps - 1)
TargetStep(tg, newClicks) == Min(newClicks - 1, calculateTotalSteps(tg) - 1)

\* Math.abs(newClicks - (oldClicks || 0)) > 1
LargeClickDifference(newClicks, oldClicks) == Abs(newClicks - oldClicks) > 1

\* the watcher of $slidev.nav.clicks
watchClicks(ns, tg, newClicks, oldClicks, now) ==
    IF newClicks = 0 THEN initializeTargetsWrapper(ns, tg)
    ELSE animateToStep(ns, tg, TargetStep(tg, newClicks),
                       LargeClickDifference(newClicks, oldClicks), now)

\* variant: the page change only resets the targets
watchCurrentPage_KeepsLoops(ns, tg) == initializeTargetsWrapper(ns, tg)

\* the watcher of $slidev.nav.currentPage
watchCurrentPage(ns, tg) ==
    initializeTargetsWrapper([ns EXCEPT !.st = stopAllTweens(ns.st)], tg)

----------------------------------------------------------------------------
(* SpecNav: one useKonvaAnimation instance.  The host changes the click    *)
(* count and the page, delivers frames and runs the deferred writes, and   *)
(* the caller uses the returned animateToStep, stopAllTweens and           *)
(* initializeTargets.  Handlers run to completion, and the deferred        *)
(* writes of a frame run before the next handler (microtask checkpoint).   *)

\* the clock runs to NavHorizon: calls come both sooner and later than
\* SkipThreshold after a step change, and a loop started at 0 completes
NavHorizon == SkipThreshold + 1
\* the click counts the host shows: one more than the longest step array,
\* so that the count falls by two onto a step
ClickCounts == 0 .. MaxSteps + 1

NavStep(properties) == Step(properties, << >>, << >>, "undefined")

NavTarget1 ==
    [ target |-> 1, initialState |-> Obj2("x", Num(0), "y", Str(1)),
      steps |-> << NavStep(Obj1("x", Num(4))),
                   NavStep(Obj2("y", Str(2), "x", Num(8))) >> ]

NavTarget2 ==
    [ target |-> 2, initialState |-> Obj1("x", Num(0)),
      steps |-> << NavStep(Obj1("x", Num(8))) >> ]

\* two targets whose step arrays differ in length and whose steps share a
\* key; one target with fewer steps than the click count reaches; no
\* target at all
NavTargetLists == { << NavTarget1, NavTarget2 >>, << NavTarget2 >>, << >> }

NavState == [st |-> Scheduler, objs |-> objs, tg |-> targets]
Now == TimeOrigin + clock

NoNavCall == [called |-> FALSE, stepIndex |-> 0, forceSkip |-> FALSE, now |-> 0]
NavCall(stepIndex, forceSkip) ==
    [called |-> TRUE, stepIndex |-> stepIndex, forceSkip |-> forceSkip, now |-> Now]

\* the handler's result ns becomes the next state; nav.clicks follows the
\* host and nav.changedAt records when a call of animateToStep last
\* changed currentStep
NavBecomes(ns, clicks, call) ==
    /\ Becomes([ns.st EXCEPT
            !.nav.clicks = clicks,
            !.nav.changedAt =
                IF call.called /\ ns.st.nav.currentStep # nav.currentStep
                THEN << call.now >> ELSE @])
    /\ objs' = ns.objs
    /\ prepArgs' = call
    /\ targets' = ns.tg
    /\ UNCHANGED << gen, anims, frameTime, frameStart, batch, prepResult, clock >>

\* useKonvaAnimation(targets): the refs are created and the watcher of the
\* click count runs at once (immediate: true, oldClicks undefined)
InitNavOver(lists) ==
    /\ targets \in lists
    /\ gen = NoGen
    /\ anims = << >>
    /\ op = "useKonvaAnimation"
    /\ frameTime = 0
    /\ frameStart = 0
    /\ batch = << >>
    /\ prepArgs = NoNavCall
    /\ prepResult = NoResult
    /\ clock = 0
    /\ \E c \in ClickCounts :
          LET ns == watchClicks([st |-> NoScheduler, objs |-> FreshObjects, tg |-> targets],
                                targets, c, 0, TimeOrigin)
          IN  /\ loops = ns.st.loops
              /\ raf = ns.st.raf
              /\ nextRafId = ns.st.nextRafId
              /\ microtasks = ns.st.microtasks
              /\ nav = [ns.st.nav EXCEPT !.clicks = c]
              /\ objs = ns.objs

\* useKonvaAnimation(targets) over one of the target lists
InitNav == InitNavOver(NavTargetLists)

\* $slidev.nav.clicks changes to c, unless the watcher would create more
\* loops than limit
ClicksChangeWithin(c, limit) ==
    /\ c # nav.clicks
    /\ microtasks = << >>
    /\ op' = "clicks"
    /\ \E ns \in { watchClicks(NavState, targets, c, nav.clicks, Now) } :
          /\ Len(ns.st.loops) <= limit
          /\ NavBecomes(ns, c,
                IF c = 0 THEN NoNavCall
                ELSE NavCall(TargetStep(targets, c), LargeClickDifference(c, nav.clicks)))

\* $slidev.nav.clicks changes to c
ClicksChange(c) == ClicksChangeWithin(c, MaxLoops)

\* $slidev.nav.currentPage changes
PageChange ==
    /\ microtasks = << >>
    /\ op' = "page"
    /\ \E ns \in { watchCurrentPage(NavState, targets) } :
          NavBecomes(ns, nav.clicks, NoNavCall)

\* the caller calls the returned animateToStep(stepIndex, forceSkip),
\* unless the call would create more loops than limit
CallAnimateToStepWithin(stepIndex, forceSkip, limit) ==
    /\ microtasks = << >>
    /\ op' = "animateToStep"
    /\ \E ns \in { animateToStep(NavState, targets, stepIndex, forceSkip, Now) } :
          /\ Len(ns.st.loops) <= limit
          /\ NavBecomes(ns, nav.clicks, NavCall(stepIndex, forceSkip))

\* the caller calls the returned animateToStep(stepIndex, forceSkip)
CallAnimateToStep(stepIndex, forceSkip) ==
    CallAnimateToStepWithin(stepIndex, forceSkip, MaxLoops)

\* the caller calls the returned stopAllTweens()
CallStopAllTweens ==
    /\ microtasks = << >>
    /\ op' = "stopAllTweens"
    /\ NavBecomes([NavState EXCEPT !.st = stopAllTweens(Scheduler)], nav.clicks, NoNavCall)

\* the caller calls the returned initializeTargets()
CallInitializeTargetsWrapper ==
    /\ microtasks = << >>
    /\ op' = "initializeTargets"
    /\ \E ns \in { initializeTargetsWrapper(NavState, targets) } :
          NavBecomes(ns, nav.clicks, NoNavCall)

\* the host delivers the frame with timestamp t
NavFrame(t) ==
    /\ t > clock
    /\ microtasks = << >>
    /\ clock' = t
    /\ op' = "frame"
    /\ prepArgs' = NoNavCall
    /\ \E st \in { RunCallbacks(Scheduler, raf, t) } : Becomes(st)
    /\ UNCHANGED << gen, targets, objs, anims, frameTime, frameStart, batch, prepResult >>

NextNav ==
    \/ \E c \in ClickCounts : ClicksChange(c)
    \/ PageChange
    \/ \E stepIndex \in StepIndices, forceSkip \in BOOLEAN : CallAnimateToStep(stepIndex, forceSkip)
    \/ CallStopAllTweens
    \/ CallInitializeTargetsWrapper
    \/ \E t \in 1 .. NavHorizon : NavFrame(t)
    \/ RunMicrotask

SpecNav == InitNav /\ [][NextNav]_vars

----------------------------------------------------------------------------
(* SpecTweens: the composable over the target with two steps, with calls,  *)
(* click changes, page changes and frames, where up to MaxTweens loops are  *)
(* created one after the other.                                             *)

MaxTweens == 2          \* a call that would create more loops than this is not made

\* useKonvaAnimation(targets) over the target with two steps
InitTweens == InitNavOver({ << NavTarget1 >> })

NextTweens ==
    \/ \E c \in ClickCounts : ClicksChangeWithin(c, MaxTweens)
    \/ PageChange
    \/ \E stepIndex \in StepIndices, forceSkip \in BOOLEAN :
          CallAnimateToStepWithin(stepIndex, forceSkip, MaxTweens)
    \/ \E t \in 1 .. NavHorizon : NavFrame(t)
    \/ RunMicrotask

SpecTweens == InitTweens /\ [][NextTweens]_vars

\* the steps from..to that declare key for target, by index
Declaring(target, key, from, to) ==
    { j \in from .. to :
        j < Len(target.steps) /\ IndexOfKey(target.steps[j + 1].properties, key, 1) # 0 }

\* the value of key on target's object once the end states of steps
\* from..to are applied in increasing order: the value the last declaring
\* step gives it, or the old value when none declares it
EndStateValue(target, key, from, to, old) ==
    LET declaring == Declaring(target, key, from, to)
        last == CHOOSE j \in declaring : \A i \in declaring : i <= j
    IN  IF declaring = {} THEN old
        ELSE Get(target.steps[last + 1].properties, key)

NavKeys == {"x", "y"}

\* the live objects hold the end states of steps from..to over before
HoldsEndStates(tg, before, after, from, to) ==
    /\ \A i \in 1 .. Len(tg) : \A key \in NavKeys :
          Get(after[tg[i].target], key) =
              EndStateValue(tg[i], key, from, to, Get(before[tg[i].target], key))
    /\ \A o \in ObjIds :
          (\A i \in 1 .. Len(tg) : tg[i].target # o) => after[o] = before[o]

\* the call of animateToStep made in this step meets the skip condition of
\* the claim: no animation is running, and the call is forced or comes
\* less than SkipThreshold after the previous step change with a higher
\* step index
SkipCase ==
    /\ op' \in {"animateToStep", "clicks"}
    /\ prepArgs'.called
    /\ ~nav.isAnimating
    /\ \/ prepArgs'.forceSkip
       \/ /\ nav.changedAt # << >>
          /\ prepArgs'.now - nav.changedAt[1] < SkipThreshold
          /\ prepArgs'.stepIndex > nav.currentStep

\* no loop is created, the end states of steps currentStep+1..k are on the
\* objects when the call returns, and currentStep is k
Snapped ==
    /\ Len(loops') = Len(loops)
    /\ raf' = raf
    /\ microtasks' = microtasks
    /\ HoldsEndStates(targets, objs, objs', nav.currentStep + 1, prepArgs'.stepIndex)
    /\ nav'.currentStep = prepArgs'.stepIndex


\* C17: a page change cancels every loop that has a frame pending, sets
\* currentStep to -1 and leaves every property of every target's
\* initialState on the target; a loop cancelled before its completion
\* processes no frame and never calls its completion callback afterwards.
C17_PageChangeResets ==
    [][ /\ op' = "page" =>
              /\ raf' = {}
              /\ \A c \in raf : loops'[c.loop].cancelled
              /\ nav'.activeTweens = << >>
              /\ nav'.currentStep = -1
              /\ \A i \in 1 .. Len(targets) :
                    \A q \in 1 .. Len(targets[i].initialState) :
                        Get(objs'[targets[i].target], targets[i].initialState[q].k)
                            = targets[i].initialState[q].v
        /\ \A L \in 1 .. Len(loops) :
              ( loops[L].cancelled /\ loops[L].completeCalls = 0 )
              => /\ loops'[L].cancelled
                 /\ loops'[L].completeCalls = 0
                 /\ loops'[L].frames = loops[L].frames
      ]_vars

\* C17 witness: the page changed while a loop had processed a frame and
\* was not complete; the loop is cancelled, nothing is pending and the
\* targets are back at their initial state
C17_Witness ==
    /\ op = "page"
    /\ Len(loops) = 1
    /\ loops[1].cancelled
    /\ loops[1].completeCalls = 0
    /\ loops[1].frames >= 1
    /\ ~areAllAnimationsCompleted(loops[1].animations)
    /\ raf = {}
    /\ nav.currentStep = -1


\* C18: no step of the engine changes the contents of any target's
\* initialState (an object of its own, distinct from the live objects):
\* not the preparations, the frames of a loop and their deferred writes,
\* the resets, the skips, nor animateToStep as a whole.
C18_InitialStateKept ==
    [][ /\ Len(targets') = Len(targets)
        /\ \A i \in 1 .. Len(targets) :
              targets'[i].initialState = targets[i].initialState
      ]_vars

\* C18 witness: animateToStep has just started a reverse animation towards
\* an earlier step of targets whose live objects differ from their initial
\* state; the loop animates every key of the target state
C18_Witness ==
    /\ op = "animateToStep"
    /\ prepArgs.called
    /\ nav.currentStep = prepArgs.stepIndex
    /\ Len(targets) = 2
    /\ Len(loops) = 1
    /\ raf # {}
    /\ Len(loops[1].animations) = 2
    /\ loops[1].animations[1].keys = << "x", "y" >>
    /\ loops[1].animations[1].endVals = << Num(4), Str(1) >>
    /\ Get(objs[1], "x") = Num(8)
    /\ targets[1].initialState = NavTarget1.initialState


\* the largest number of steps a target declares, 0 without targets
LargestStepCount ==
    IF targets = << >> THEN 0
    ELSE CHOOSE n \in { Len(targets[i].steps) : i \in 1 .. Len(targets) } :
            \A i \in 1 .. Len(targets) : Len(targets[i].steps) <= n

\* C28: currentStep always lies in -1 .. totalSteps - 1, and a call of
\* animateToStep with an index outside 0 .. totalSteps - 1 changes nothing:
\* no ref, no loop, no pending frame, no queued write and no object.
C28_CurrentStepInRange ==
    /\ [](nav.currentStep >= -1 /\ nav.currentStep <= LargestStepCount - 1)
    /\ [][ ( op' = "animateToStep" /\ prepArgs'.called
             /\ ( prepArgs'.stepIndex < 0 \/ prepArgs'.stepIndex >= LargestStepCount ) )
           => /\ nav' = nav
              /\ loops' = loops
              /\ raf' = raf
              /\ microtasks' = microtasks
              /\ objs' = objs
              /\ targets' = targets
         ]_vars

\* C28 witness: animateToStep was called with the index totalSteps while
\* a loop was running; the loop is still running and currentStep is the
\* last step
C28_Witness ==
    /\ op = "animateToStep"
    /\ prepArgs.called
    /\ prepArgs.stepIndex = LargestStepCount
    /\ LargestStepCount > 0
    /\ nav.currentStep = LargestStepCount - 1
    /\ nav.isAnimating
    /\ Len(loops) = 1
    /\ ~loops[1].cancelled
    /\ raf # {}


\* the call of animateToStep made in this step advances by one step less
\* than SkipThreshold after the call that started the loop of the current
\* step, which is still running
RapidAdvance ==
    /\ op' = "animateToStep"
    /\ prepArgs'.called
    /\ nav.currentStep >= 0
    /\ prepArgs'.stepIndex = nav.currentStep + 1
    /\ prepArgs'.stepIndex < calculateTotalSteps(targets)
    /\ nav.isAnimating
    /\ \E c \in raf : ~loops[c.loop].cancelled /\ loops[c.loop].completeCalls = 0
    /\ prepArgs'.now - nav.stepStartTime < SkipThreshold

\* C29: after a rapid advance from step k to step k + 1 every property
\* that step k or step k + 1 declares for a target holds the value of the
\* later of the two steps that declare it.
C29_RapidForwardConsistent ==
    [][ RapidAdvance =>
          /\ nav'.currentStep = prepArgs'.stepIndex
          /\ \A i \in 1 .. Len(targets) : \A key \in NavKeys :
                Declaring(targets[i], key, nav.currentStep, nav.currentStep + 1) # {}
                => Get(objs'[targets[i].target], key)
                      = EndStateValue(targets[i], key, nav.currentStep, nav.currentStep + 1,
                                      Undefined)
      ]_vars

\* C29 witness: a call without forceSkip has advanced to step 1 as a skip
\* and cancelled the loop of step 0 before its end; the second target,
\* which has no step 1, does not hold the x its step 0 declares
C29_Witness ==
    /\ op = "animateToStep"
    /\ prepArgs.called
    /\ ~prepArgs.forceSkip
    /\ prepArgs.stepIndex = 1
    /\ nav.currentStep = 1
    /\ targets = << NavTarget1, NavTarget2 >>
    /\ Len(loops) = 1
    /\ loops[1].cancelled
    /\ loops[1].completeCalls = 0
    /\ Get(objs[2], "x") # Get(NavTarget2.steps[1].properties, "x")

\* the click count falls by more than one onto a step before the current
\* one: the watcher calls animateToStep(k, true) with k < currentStep
BackwardJump ==
    /\ op' = "clicks"
    /\ prepArgs'.called
    /\ prepArgs'.forceSkip
    /\ nav.clicks - nav'.clicks > 1
    /\ prepArgs'.stepIndex >= 0
    /\ prepArgs'.stepIndex < nav.currentStep

\* C30: after a backward jump to step k, currentStep is k and every
\* property of every target that initialState or one of the steps 0..k
\* declares holds its value in the cumulative state of initialState and
\* the steps 0..k.
C30_BackwardJumpSnaps ==
    [][ BackwardJump =>
          /\ nav'.currentStep = prepArgs'.stepIndex
          /\ \A i \in 1 .. Len(targets) : \A key \in NavKeys :
                InCumulativeState(targets[i], prepArgs'.stepIndex, key)
                => Get(objs'[targets[i].target], key)
                      = CumulativeValue(targets[i], prepArgs'.stepIndex, key)
      ]_vars

\* C30 witness: the click count has fallen onto step 0 with forceSkip and
\* currentStep is 0, while the first target holds the x of its step 1
C30_Witness ==
    /\ op = "clicks"
    /\ prepArgs.called
    /\ prepArgs.forceSkip
    /\ prepArgs.stepIndex = 0
    /\ nav.currentStep = 0
    /\ nav.clicks = 1
    /\ targets = << NavTarget1, NavTarget2 >>
    /\ Get(objs[1], "x") = Get(NavTarget1.steps[2].properties, "x")
    /\ Get(objs[1], "x") # CumulativeValue(NavTarget1, 0, "x")

\* the call of animateToStep made in this step, by the caller or by the
\* click watcher, names the current step without forceSkip while the
\* loop of that step is running
SameStepCall ==
    /\ op' \in {"animateToStep", "clicks"}
    /\ prepArgs'.called
    /\ ~prepArgs'.forceSkip
    /\ nav.currentStep >= 0
    /\ prepArgs'.stepIndex = nav.currentStep
    /\ nav.isAnimating
    /\ \E c \in raf : ~loops[c.loop].cancelled /\ loops[c.loop].completeCalls = 0

\* C31: a call of animateToStep(k) with k = currentStep creates no loop
\* and leaves the running loop of step k as it is: its requested frame
\* stays requested, it is not cancelled and isAnimating stays true, so
\* that it can run to completion.
C31_SameStepKeepsRunning ==
    [][ SameStepCall =>
          /\ Len(loops') = Len(loops)
          /\ nav'.isAnimating
          /\ \A c \in raf :
                ~loops[c.loop].cancelled
                => c \in raf' /\ ~loops'[c.loop].cancelled
      ]_vars

\* C31 witness: a call that names the current step and did not change it
\* has cancelled the loop of that step before its completion
C31_Witness ==
    /\ op \in {"animateToStep", "clicks"}
    /\ prepArgs.called
    /\ ~prepArgs.forceSkip
    /\ prepArgs.stepIndex = nav.currentStep
    /\ nav.changedAt # << >>
    /\ nav.changedAt[1] < prepArgs.now
    /\ Len(loops) = 1
    /\ loops[1].cancelled
    /\ loops[1].completeCalls = 0
    /\ raf = {}
    /\ ~nav.isAnimating

\* every target in tg holds, in objects, the value of every key of its
\* initialState
HoldsInitialState(tg, objects) ==
    \A i \in 1 .. Len(tg) :
        \A q \in 1 .. Len(tg[i].initialState) :
            Get(objects[tg[i].target], tg[i].initialState[q].k) = tg[i].initialState[q].v

\* C32: when the click count becomes 0, currentStep becomes -1 and every
\* target holds its initialState, and the frame the host delivers next
\* queues no write to a target.
C32_ClickResetHolds ==
    [][ /\ (op' = "clicks" /\ nav'.clicks = 0)
           => /\ nav'.currentStep = -1
              /\ HoldsInitialState(targets, objs')
        /\ (op = "clicks" /\ nav.clicks = 0 /\ op' = "frame")
           => microtasks' = << >>
      ]_vars

\* C32 witness: the click count is 0, currentStep is -1 and the targets
\* hold their initialState, while a frame of a loop that was never
\* cancelled has queued a write that changes a target
C32_Witness ==
    /\ op = "frame"
    /\ nav.clicks = 0
    /\ nav.currentStep = -1
    /\ HoldsInitialState(targets, objs)
    /\ Len(loops) = 1
    /\ ~loops[1].cancelled
    /\ microtasks # << >>
    /\ ~HoldsInitialState(targets, WriteBatch(objs, Head(microtasks)))

\* the deferred writes in queue, oldest first, applied to objects
RECURSIVE RunMicrotasks(_, _)
RunMicrotasks(objects, queue) ==
    IF queue = << >> THEN objects
    ELSE RunMicrotasks(WriteBatch(objects, Head(queue)), Tail(queue))

\* the objects once the loops of st have run undisturbed to their end:
\* the host delivers frames at t, t + stride, ... and the writes a frame
\* defers run before the next frame, until no frame is requested
RECURSIVE RunToCompletion(_, _, _, _)
RunToCompletion(st, objects, t, stride) ==
    IF st.raf = {} THEN RunMicrotasks(objects, st.microtasks)
    ELSE LET after == RunCallbacks(st, st.raf, t)
         IN  RunToCompletion([after EXCEPT !.microtasks = << >>],
                             RunMicrotasks(objects, after.microtasks),
                             t + stride, stride)

\* every key of the cumulative state of initialState and steps
\* 0..stepIndex holds that state's value on every target
HoldsCumulativeState(tg, objects, stepIndex) ==
    \A i \in 1 .. Len(tg) : \A key \in NavKeys :
        InCumulativeState(tg[i], stepIndex, key)
        => Get(objects[tg[i].target], key) = CumulativeValue(tg[i], stepIndex, key)

\* the call of animateToStep made in this step starts an animated
\* transition by one step, forward or back, from the cumulative state of
\* the current step
AnimatedTransition ==
    /\ op' \in {"animateToStep", "clicks"}
    /\ prepArgs'.called
    /\ ~OutOfRange(prepArgs'.stepIndex, calculateTotalSteps(targets))
    /\ \/ prepArgs'.stepIndex = nav.currentStep + 1
       \/ prepArgs'.stepIndex = nav.currentStep - 1
    /\ ~SkipsAnimation(prepArgs'.forceSkip, prepArgs'.now - nav.stepStartTime,
                       prepArgs'.stepIndex, nav.currentStep)
    /\ HoldsCumulativeState(targets, objs, nav.currentStep)

\* C33: when an animated transition by one step starts from the
\* cumulative state of the current step and its loop runs to natural
\* completion with nothing but frames and deferred writes in between,
\* with the first frame sooner or later than the throttle window and the
\* frames at any regular spacing up to it, every key of the cumulative
\* state of the destination step holds that state's value once the last
\* write has run.
C33_UninterruptedTransition ==
    [][ AnimatedTransition =>
          \A first \in { clock + 1, clock + UpdateThreshold + 1 } :
              \A stride \in 1 .. UpdateThreshold + 1 :
                  HoldsCumulativeState(targets',
                      RunToCompletion(
                          [loops |-> loops', raf |-> raf', nextRafId |-> nextRafId',
                           microtasks |-> microtasks', nav |-> nav'],
                          objs', first, stride),
                      prepArgs'.stepIndex)
      ]_vars

\* C33 witness: the reverse transition from step 1 to step 0 started from
\* the cumulative state of step 1, was never cancelled, has completed and
\* its last write has run: both targets hold the cumulative state of
\* step 0
C33_Witness ==
    /\ op = "microtask"
    /\ microtasks = << >>
    /\ targets = << NavTarget1, NavTarget2 >>
    /\ nav.currentStep = 0
    /\ Len(loops) = 1
    /\ ~loops[1].cancelled
    /\ loops[1].completeCalls = 1
    /\ \E q \in 1 .. Len(loops[1].animations[1].keys) :
          /\ loops[1].animations[1].keys[q] = "x"
          /\ loops[1].animations[1].startVals[q] = CumulativeValue(NavTarget1, 1, "x")
    /\ HoldsCumulativeState(targets, objs, 0)

\* a loop started by animateToStep is live: it has a frame requested, it
\* was not cancelled and it has not completed
LiveLoops == { c.loop : c \in { r \in raf : /\ ~loops[r.loop].cancelled
                                             /\ loops[r.loop].completeCalls = 0 } }

\* C34: isAnimating is true exactly when a loop started by animateToStep
\* is live, and every requested frame belongs to a live loop; so it is
\* false after natural completion, after stopAllTweens, after a skipped
\* transition and when no loop was created.
C34_IsAnimatingIffLive ==
    /\ nav.isAnimating <=> LiveLoops # {}
    /\ \A c \in raf : c.loop \in LiveLoops

\* C34 witness: the loop of a transition has completed naturally in the
\* last frame and isAnimating is false; the loop is still in activeTweens
C34_Witness ==
    /\ op = "frame"
    /\ Len(loops) = 1
    /\ loops[1].completeCalls = 1
    /\ ~loops[1].cancelled
    /\ nav.activeTweens = << 1 >>
    /\ raf = {}
    /\ ~nav.isAnimating

\* the loops that can still write: a frame is requested for them
WritingLoops == { c.loop : c \in raf }

\* C35: at most one loop has a frame requested; it is the loop in
\* activeTweens, the last one created, and every loop created before it
\* was cancelled or has completed.
C35_OneLiveLoop ==
    /\ Cardinality(raf) <= 1
    /\ \A L \in WritingLoops : L = Len(loops) /\ nav.activeTweens = << L >>
    /\ \A L \in 1 .. Len(loops) - 1 :
          loops[L].cancelled \/ loops[L].completeCalls > 0

\* C35 witness: a second loop is running and has processed a frame, and
\* the first was cancelled before its completion
C35_Witness ==
    /\ Len(loops) = 2
    /\ loops[1].cancelled
    /\ loops[1].completeCalls = 0
    /\ ~loops[2].cancelled
    /\ loops[2].frames >= 1
    /\ raf # {}

\* C7 as stated: whenever animateToStep(k) is called in the skip case, no
\* animation loop is created, the targets hold the end states of steps
\* currentStep+1..k applied in increasing order, and currentStep becomes k.
C7_ForwardSkip ==
    [][ SkipCase => Snapped ]_vars

\* C7 for a step index in range: whenever animateToStep(k) is called with
\* 0 <= k < totalSteps in the skip case, no animation loop is created, the
\* targets hold the end states of steps currentStep+1..k applied in
\* increasing order, and currentStep becomes k.
C7_ForwardSkipInRange ==
    [][ ( SkipCase
          /\ prepArgs'.stepIndex >= 0
          /\ prepArgs'.stepIndex < calculateTotalSteps(targets) )
        => Snapped ]_vars

\* an unforced call less than SkipThreshold after a forced one snapped
\* both objects past the first step: x of object 1 went from the first
\* step's value to the second step's, and no loop was ever created
C7_Witness ==
    /\ op = "animateToStep"
    /\ prepArgs.called
    /\ ~prepArgs.forceSkip
    /\ prepArgs.stepIndex = 1
    /\ nav.currentStep = 1
    /\ nav.changedAt = << prepArgs.now >>
    /\ Len(targets) = 2
    /\ Get(objs[1], "x") = Num(8)
    /\ Get(objs[1], "y") = Str(2)
    /\ loops = << >>
    /\ clock > 0

----------------------------------------------------------------------------
(* Generator executor (composables/useGeneratorAnimation).  A producer is  *)
(* the list of the values it yields (script) and how it ends: it returns,  *)
(* or it raises after its last yield.                                      *)

PlaceholderDuration == 100      \* createAnimationStep({}, { duration: 100 })

\* AnimationProps
Options(duration, delay, easing) ==
    [duration |-> duration, delay |-> delay, easing |-> easing]

\* options || {}
NoOptions == Options(<< >>, << >>, "undefined")

\* animate(target, properties, options): an AnimationInstruction
Instruction(target, properties, options) ==
    [type |-> "animate", target |-> target, properties |-> properties, options |-> options]

\* the values a producer may yield: an array of instructions, one
\* instruction, or something else (a number, null, an object without a
\* type field)
YieldArray(items) == [kind |-> "array", items |-> items]
YieldInstruction(instruction) == [kind |-> "instruction", items |-> << instruction >>]
YieldOther == [kind |-> "other", items |-> << >>]

\* a SingleAnimation of a group: target, properties and options of the
\* instruction
SingleAnimation(instruction) ==
    [ target |-> instruction.target,
      properties |-> instruction.properties,
      options |-> instruction.options ]

\* the AnimationGroup a yielded value is converted to
AnimationGroupOf(yielded) ==
    IF yielded.kind = "array" \/ yielded.kind = "instruction"
    THEN [animations |-> [j \in 1 .. Len(yielded.items) |-> SingleAnimation(yielded.items[j])]]
    ELSE [animations |-> << >>]

\* variant: every converted group is pushed
KeepsGroup_Always(animationStep) == TRUE

\* if (animationStep.animations.length > 0) steps.push(animationStep)
KeepsGroup(animationStep) == Len(animationStep.animations) > 0

\* the while loop of executeGeneratorFunction from yield i on
RECURSIVE DrainFrom(_, _, _)
DrainFrom(script, i, steps) ==
    IF i > Len(script) THEN steps
    ELSE LET animationStep == AnimationGroupOf(script[i])
         IN  DrainFrom(script, i + 1,
                       IF KeepsGroup(animationStep) THEN Append(steps, animationStep)
                       ELSE steps)

\* variant: the error of the producer discards what was collected and
\* reaches the caller
Caught_Rethrown(steps) == [steps |-> << >>, threw |-> TRUE]

\* catch (error) { console.error(...) } followed by return steps
Caught(steps) == [steps |-> steps, threw |-> FALSE]

\* executeGeneratorFunction(generatorFn)
executeGeneratorFunction(script, ending) ==
    LET steps == DrainFrom(script, 1, << >>)
    IN  IF ending = "throw" THEN Caught(steps)
        ELSE [steps |-> steps, threw |-> FALSE]

\* allTargets: the distinct targets of the groups, in the order a Set
\* keeps them (first insertion)
RECURSIVE AddTargets(_, _, _)
AddTargets(animations, j, found) ==
    IF j > Len(animations) THEN found
    ELSE AddTargets(animations, j + 1,
            IF \E q \in 1 .. Len(found) : found[q] = animations[j].target
            THEN found
            ELSE Append(found, animations[j].target))

RECURSIVE AllTargetsFrom(_, _, _)
AllTargetsFrom(steps, i, found) ==
    IF i > Len(steps) THEN found
    ELSE AllTargetsFrom(steps, i + 1, AddTargets(steps[i].animations, 1, found))

AllTargets(steps) == AllTargetsFrom(steps, 1, << >>)

\* step.animations.filter((anim) => anim.target === target)
RECURSIVE TargetAnimations(_, _, _)
TargetAnimations(animations, target, j) ==
    IF j > Len(animations) THEN << >>
    ELSE IF animations[j].target = target
    THEN << animations[j] >> \o TargetAnimations(animations, target, j + 1)
    ELSE TargetAnimations(animations, target, j + 1)

\* the well-known properties captureInitialState reads first
CommonProps == << "x", "y" >>

\* state[prop] = target[prop] for the props of list, if the live value is
\* defined and, when onlyNew, not captured yet
RECURSIVE CaptureProps(_, _, _, _, _)
CaptureProps(live, props, j, onlyNew, state) ==
    IF j > Len(props) THEN state
    ELSE CaptureProps(live, props, j + 1, onlyNew,
            IF Get(live, props[j]) # Undefined
               /\ (onlyNew => Get(state, props[j]) = Undefined)
            THEN Put(state, props[j], Get(live, props[j]))
            ELSE state)

RECURSIVE CaptureAnimations(_, _, _, _, _)
CaptureAnimations(live, animations, target, j, state) ==
    IF j > Len(animations) THEN state
    ELSE CaptureAnimations(live, animations, target, j + 1,
            IF animations[j].target = target
            THEN CaptureProps(live, ObjectKeys(animations[j].properties), 1, TRUE, state)
            ELSE state)

RECURSIVE CaptureSteps(_, _, _, _, _)
CaptureSteps(live, steps, target, i, state) ==
    IF i > Len(steps) THEN state
    ELSE CaptureSteps(live, steps, target, i + 1,
            CaptureAnimations(live, steps[i].animations, target, 1, state))

captureInitialState(objects, steps, target) ==
    CaptureSteps(objects[target], steps, target, 1,
                 CaptureProps(objects[target], CommonProps, 1, FALSE, << >>))

\* EasingPresets[name]
EasingPresets(name) ==
    CASE name = "easeInOut" -> "EaseInOut"
      [] name = "linear" -> "Linear"
      [] name = "easeIn" -> "EaseIn"
      [] OTHER -> "undefined"

PresetNames == { "easeInOut", "linear", "easeIn" }

\* options.defaultEasing of useGeneratorAnimation
GenEasing == "easeInOut"

\* Math.max(duration, targetAnimation.options?.duration || defaultDuration)
MergedDuration(duration, optionsDuration, defaultDuration) ==
    Max(duration,
        IF optionsDuration = << >> \/ optionsDuration = << 0 >>
        THEN defaultDuration ELSE optionsDuration[1])

\* variant: the last delay wins
MergedDelay_Last(delay, optionsDelay) == << OrElse(optionsDelay, 0) >>

\* delay === undefined ? animDelay : Math.min(delay, animDelay), with
\* animDelay = targetAnimation.options?.delay ?? 0
MergedDelay(delay, optionsDelay) ==
    LET animDelay == OrElse(optionsDelay, 0)
    IN  IF delay = << >> THEN << animDelay >>
        ELSE << IF delay[1] <= animDelay THEN delay[1] ELSE animDelay >>

\* the for loop over targetAnimations; merged holds mergedProperties,
\* duration, delay and easing
RECURSIVE MergeFrom(_, _, _, _)
MergeFrom(targetAnimations, j, defaultDuration, merged) ==
    IF j > Len(targetAnimations) THEN merged
    ELSE LET a == targetAnimations[j]
         IN  MergeFrom(targetAnimations, j + 1, defaultDuration,
                [ properties |-> ObjectAssign(merged.properties, a.properties),
                  duration |-> MergedDuration(merged.duration, a.options.duration, defaultDuration),
                  delay |-> MergedDelay(merged.delay, a.options.delay),
                  easing |-> IF a.options.easing # "undefined" THEN a.options.easing
                             ELSE merged.easing ])

\* typeof easing === "string" ? EasingPresets[easing] : easing || default
ResolvedEasing(easing, defaultEasing) ==
    IF easing \in PresetNames THEN EasingPresets(easing)
    ELSE IF easing # "undefined" THEN easing
    ELSE IF defaultEasing \in PresetNames THEN EasingPresets(defaultEasing)
    ELSE defaultEasing

\* variant: a target without sub-instruction in a group gets no step
PlaceholderStep_None == << >>

\* createAnimationStep({}, { duration: 100 }), as a list of one step
PlaceholderStep ==
    << Step(<< >>, << PlaceholderDuration >>, << >>, "undefined") >>

\* the step synthesized for target from one group, as a list of one step
AnimationStepOf(step, target, defaultDuration, defaultEasing) ==
    LET targetAnimations == TargetAnimations(step.animations, target, 1)
        merged == MergeFrom(targetAnimations, 1, defaultDuration,
                    [ properties |-> << >>, duration |-> defaultDuration,
                      delay |-> << >>, easing |-> defaultEasing ])
    IN  IF Len(targetAnimations) > 0
        THEN << Step(merged.properties, << merged.duration >>,
                     << OrElse(merged.delay, 0) >>,
                     ResolvedEasing(merged.easing, defaultEasing)) >>
        ELSE PlaceholderStep

RECURSIVE AnimationSteps(_, _, _, _, _)
AnimationSteps(steps, target, i, defaultDuration, defaultEasing) ==
    IF i > Len(steps) THEN << >>
    ELSE AnimationStepOf(steps[i], target, defaultDuration, defaultEasing)
            \o AnimationSteps(steps, target, i + 1, defaultDuration, defaultEasing)

\* animationTargets: one createAnimationTarget per distinct target
AnimationTargets(objects, steps, defaultDuration, defaultEasing) ==
    LET allTargets == AllTargets(steps)
    IN  [ q \in 1 .. Len(allTargets) |->
            [ target |-> allTargets[q],
              initialState |-> captureInitialState(objects, steps, allTargets[q]),
              steps |-> AnimationSteps(steps, allTargets[q], 1, defaultDuration, defaultEasing) ] ]

----------------------------------------------------------------------------
(* SpecGen: a caller hands a producer to createAnimationFromGenerator,     *)
(* which drains it, synthesizes the targets and sets up useKonvaAnimation  *)
(* on them.                                                                *)

MaxYields == 3          \* a producer yields at most MaxYields values

\* options.defaultDuration of useGeneratorAnimation
GenDuration == MaxDuration

\* instructions for two targets: without options; with a duration above
\* the default, a delay and an easing function; with a duration below the
\* default, a later delay and a preset name; for the other target, with
\* duration 0
PlainInstruction == Instruction(1, Obj1("x", Num(4)), NoOptions)
SlowInstruction ==
    Instruction(1, Obj2("x", Num(8), "fill", Str(2)), Options(<< MaxDuration + 1 >>, << MaxDelay >>, "Half"))
QuickInstruction ==
    Instruction(1, Obj1("y", Str(2)), Options(<< 1 >>, << MaxDelay + 1 >>, "linear"))
OtherInstruction ==
    Instruction(2, Obj1("x", Num(8)), Options(<< 0 >>, << MaxDelay >>, "undefined"))

InstructionPool == { PlainInstruction, SlowInstruction, QuickInstruction, OtherInstruction }

\* groups of two: for one target in both orders, with and without delay,
\* and for two targets in both orders
PairPool ==
    { << SlowInstruction, QuickInstruction >>,
      << QuickInstruction, SlowInstruction >>,
      << PlainInstruction, QuickInstruction >>,
      << PlainInstruction, OtherInstruction >>,
      << OtherInstruction, SlowInstruction >> }

YieldPool ==
    { YieldOther, YieldArray(<< >>), YieldArray(<< PlainInstruction >>) }
        \cup { YieldInstruction(a) : a \in InstructionPool }
        \cup { YieldArray(pair) : pair \in PairPool }

Scripts == SeqsUpTo(YieldPool, MaxYields)

\* the live objects the instructions address
GenObjects ==
    [o \in ObjIds |-> IF o = 1 THEN Obj2("x", Num(1), "fill", Str(1))
                      ELSE Obj1("x", Num(1))]

InitGen ==
    /\ targets = << >>
    /\ objs = GenObjects
    /\ gen \in { [script |-> s, ending |-> e, called |-> FALSE, steps |-> << >>, threw |-> FALSE] :
                    s \in Scripts, e \in {"return", "throw"} }
    /\ anims = << >>
    /\ op = "init"
    /\ frameTime = 0
    /\ frameStart = 0
    /\ batch = << >>
    /\ prepArgs = NoCall
    /\ prepResult = NoResult
    /\ loops = << >>
    /\ raf = {}
    /\ nextRafId = 1
    /\ microtasks = << >>
    /\ clock = 0
    /\ nav = InitialNav

\* createAnimationFromGenerator(generatorFn) while $slidev.nav.clicks is c
CallCreateAnimationFromGenerator(c) ==
    /\ ~gen.called
    /\ op' = "createAnimationFromGenerator"
    /\ \E r \in { executeGeneratorFunction(gen.script, gen.ending) } :
          /\ gen' = [gen EXCEPT !.called = TRUE, !.steps = r.steps, !.threw = r.threw]
          /\ IF r.threw
             THEN UNCHANGED << targets, objs, loops, raf, nextRafId, microtasks, nav >>
             ELSE \E tg \in { AnimationTargets(objs, r.steps, GenDuration, GenEasing) } :
                  \E ns \in { watchClicks([st |-> NoScheduler, objs |-> objs, tg |-> tg], tg, c, 0, Now) } :
                      /\ targets' = ns.tg
                      /\ objs' = ns.objs
                      /\ Becomes([ns.st EXCEPT !.nav.clicks = c])
    /\ UNCHANGED << anims, frameTime, frameStart, batch, prepArgs, prepResult, clock >>

NextGen == \E c \in ClickCounts : CallCreateAnimationFromGenerator(c)

SpecGen == InitGen /\ [][NextGen]_vars


\* the sub-instructions of step group g that address target t
SubInstructions(g, t) ==
    { j \in 1 .. Len(gen.steps[g].animations) : gen.steps[g].animations[j].target = t }

\* the delay of sub-instruction j of group g, an unset delay counting as 0
DelayOf(g, j) ==
    LET d == gen.steps[g].animations[j].options.delay
    IN  IF d = << >> THEN 0 ELSE d[1]

\* createAnimationFromGenerator has drained the producer and synthesized
\* the targets
Synthesized == gen.called /\ ~gen.threw

\* C12: when a step group has sub-instructions for a target, the delay of
\* the step synthesized for that target from the group is the minimum of
\* the delays of exactly those sub-instructions, an unset delay counting
\* as 0; sub-instructions for other targets do not enter it.
C12_MergeDelay ==
    Synthesized =>
        \A i \in 1 .. Len(targets) : \A g \in 1 .. Len(gen.steps) :
            LET mine == SubInstructions(g, targets[i].target)
            IN  mine # {} =>
                  /\ \E j \in mine : targets[i].steps[g].delay = << DelayOf(g, j) >>
                  /\ \A j \in mine : targets[i].steps[g].delay[1] <= DelayOf(g, j)

\* C12 witness: a group with two sub-instructions of different delays for
\* one target, the smaller one first, and a sub-instruction with a delay
\* of its own for another target in a group of two
C12_Witness ==
    /\ Synthesized
    /\ \E g \in 1 .. Len(gen.steps) : \E i \in 1 .. Len(targets) :
          LET a == gen.steps[g].animations
          IN  /\ Len(a) = 2
              /\ a[1].target = a[2].target
              /\ a[1].target = targets[i].target
              /\ DelayOf(g, 1) < DelayOf(g, 2)
              /\ targets[i].steps[g].delay = << DelayOf(g, 1) >>
    /\ \E g \in 1 .. Len(gen.steps) :
          LET a == gen.steps[g].animations
          IN  /\ Len(a) = 2
              /\ a[1].target # a[2].target
              /\ DelayOf(g, 1) # DelayOf(g, 2)
              /\ \A j \in 1 .. 2 : \E i \in 1 .. Len(targets) :
                    /\ targets[i].target = a[j].target
                    /\ targets[i].steps[g].delay = << DelayOf(g, j) >>


\* the duration of sub-instruction j of group g: its explicit duration, or
\* the default duration when it has none
DurationOf(g, j) ==
    LET d == gen.steps[g].animations[j].options.duration
    IN  IF d = << >> THEN GenDuration ELSE d[1]

\* C13: the duration of the step synthesized for a target from a group
\* is the maximum of the durations of that target's sub-instructions in
\* the group, a sub-instruction without duration counting with the
\* default duration.
C13_MergeDuration ==
    Synthesized =>
        \A i \in 1 .. Len(targets) : \A g \in 1 .. Len(gen.steps) :
            LET mine == SubInstructions(g, targets[i].target)
            IN  mine # {} =>
                  /\ \E j \in mine : targets[i].steps[g].duration = << DurationOf(g, j) >>
                  /\ \A j \in mine : targets[i].steps[g].duration[1] >= DurationOf(g, j)

\* C13 witness: a group whose only sub-instruction for a target has an
\* explicit positive duration below the default, and the synthesized step
\* lasts the default duration
C13_Witness ==
    /\ Synthesized
    /\ \E g \in 1 .. Len(gen.steps) : \E i \in 1 .. Len(targets) :
          LET mine == SubInstructions(g, targets[i].target)
          IN  /\ mine # {}
              /\ \A j \in mine : DurationOf(g, j) > 0 /\ DurationOf(g, j) < GenDuration
              /\ targets[i].steps[g].duration = << GenDuration >>


\* the targets the step groups address
GroupTargets ==
    UNION { { gen.steps[g].animations[j].target : j \in 1 .. Len(gen.steps[g].animations) } :
              g \in 1 .. Len(gen.steps) }

\* C14: after draining, there is exactly one synthesized target per
\* distinct target of the groups, each has as many steps as there are
\* groups, its step at a group without sub-instruction for it is the
\* placeholder (no properties, duration 100), and its step at a group
\* with sub-instructions for it declares their properties.
C14_StepAlignment ==
    Synthesized =>
        /\ { targets[i].target : i \in 1 .. Len(targets) } = GroupTargets
        /\ \A i, k \in 1 .. Len(targets) : targets[i].target = targets[k].target => i = k
        /\ \A i \in 1 .. Len(targets) :
              /\ Len(targets[i].steps) = Len(gen.steps)
              /\ \A g \in 1 .. Len(gen.steps) :
                    LET mine == SubInstructions(g, targets[i].target)
                    IN  IF mine = {}
                        THEN /\ targets[i].steps[g].properties = << >>
                             /\ targets[i].steps[g].duration = << PlaceholderDuration >>
                        ELSE \A j \in mine :
                               \A q \in 1 .. Len(gen.steps[g].animations[j].properties) :
                                   Get(targets[i].steps[g].properties,
                                       gen.steps[g].animations[j].properties[q].k) # Undefined

\* C14 witness: two groups and two targets, one of which has no
\* sub-instruction in the first group and holds a placeholder there
C14_Witness ==
    /\ Synthesized
    /\ Len(gen.steps) = 2
    /\ Len(targets) = 2
    /\ \E i \in 1 .. 2 :
          /\ SubInstructions(1, targets[i].target) = {}
          /\ SubInstructions(2, targets[i].target) # {}
          /\ Len(targets[i].steps) = 2
          /\ targets[i].steps[1].duration = << PlaceholderDuration >>


\* the yielded value resolves to at least one instruction
Resolves(yielded) == yielded.kind # "other" /\ Len(yielded.items) > 0

\* C15: the step groups are exactly the yields that resolve to at least
\* one instruction, in yield order, each holding the target, properties
\* and options of its instructions; an empty array and a value that is
\* neither an array nor an instruction add no group.
C15_EmptyYieldsDropped ==
    gen.called =>
        LET kept == SelectSeq(gen.script, Resolves)
        IN  /\ Len(gen.steps) = Len(kept)
            /\ \A g \in 1 .. Len(kept) :
                  /\ Len(gen.steps[g].animations) = Len(kept[g].items)
                  /\ \A j \in 1 .. Len(kept[g].items) :
                        /\ gen.steps[g].animations[j].target = kept[g].items[j].target
                        /\ gen.steps[g].animations[j].properties = kept[g].items[j].properties
                        /\ gen.steps[g].animations[j].options = kept[g].items[j].options

\* C15 witness: a producer that yields an unknown value, an instruction
\* and an empty array has been drained into one group
C15_Witness ==
    /\ gen.called
    /\ Len(gen.script) = 3
    /\ gen.script[1] = YieldOther
    /\ Resolves(gen.script[2])
    /\ gen.script[3] = YieldArray(<< >>)
    /\ Len(gen.steps) = 1


\* the groups of the yields the producer made before it ended
CollectedGroups ==
    LET kept == SelectSeq(gen.script, Resolves)
    IN  [ g \in 1 .. Len(kept) |->
            [ animations |->
                [ j \in 1 .. Len(kept[g].items) |->
                    [ target |-> kept[g].items[j].target,
                      properties |-> kept[g].items[j].properties,
                      options |-> kept[g].items[j].options ] ] ] ]

\* C16: when the producer raises after some yields, the caller sees no
\* error, the groups of the yields made before the raise are returned
\* unchanged and in order, and the targets are synthesized from them.
C16_ProducerRaises ==
    (gen.called /\ gen.ending = "throw") =>
        /\ ~gen.threw
        /\ gen.steps = CollectedGroups
        /\ op = "createAnimationFromGenerator"
        /\ { targets[i].target : i \in 1 .. Len(targets) } = GroupTargets

\* C16 witness: a producer that raised after two resolving yields has
\* been drained into two groups
C16_Witness ==
    /\ gen.called
    /\ gen.ending = "throw"
    /\ ~gen.threw
    /\ Len(gen.script) = 2
    /\ Len(gen.steps) = 2
    /\ Len(targets) > 0


----------------------------------------------------------------------------
(* Colour interpolation (utils/lerpSystem).  A Color is [r, g, b, a]; a is *)
(* << >> when absent and else holds the alpha in units of 1 / MaxAlpha, so *)
(* that << MaxAlpha >> is the alpha 1.                                     *)

MaxAlpha == 4           \* progress runs over 0 .. MaxAlpha in units of 1 / MaxAlpha

Color(r, g, b, a) == [r |-> r, g |-> g, b |-> b, a |-> a]

\* Math.round(n / d) for d > 0
Round(n, d) == (2 * n + d) \div (2 * d)

\* Math.round(start + (end - start) * progress)
ChannelLerp(start, end, progress) ==
    Round(start * progress.d + (end - start) * progress.n, progress.d)

\* variant: without alpha on either side the result has none
DefaultAlpha_Absent == << >>

\* ?? 1
DefaultAlpha == << MaxAlpha >>

\* start.a !== undefined && end.a !== undefined
\*     ? start.a + (end.a - start.a) * progress : start.a ?? end.a ?? 1
AlphaLerp(start, end, progress) ==
    IF start.a # << >> /\ end.a # << >>
    THEN << start.a[1] + ((end.a[1] - start.a[1]) * progress.n) \div progress.d >>
    ELSE IF start.a # << >> THEN start.a
    ELSE IF end.a # << >> THEN end.a
    ELSE DefaultAlpha

colorLerp(start, end, progress) ==
    Color(ChannelLerp(start.r, end.r, progress),
          ChannelLerp(start.g, end.g, progress),
          ChannelLerp(start.b, end.b, progress),
          AlphaLerp(start, end, progress))

----------------------------------------------------------------------------
(* SpecColor: a caller applies colorLerp to two colours and a progress.    *)

Channels == {0, 128, 255}
\* no alpha, alpha 0 and alpha 1
Alphas == { << >>, << 0 >>, << MaxAlpha >> }
Colors == { Color(r, 0, b, a) : r \in Channels, b \in {0, 255}, a \in Alphas }
Progresses == { Frac(n, MaxAlpha) : n \in 0 .. MaxAlpha }

InitColor ==
    /\ targets = << >>
    /\ gen = NoGen
    /\ objs = NoObjects
    /\ anims = << >>
    /\ op = "init"
    /\ frameTime = 0
    /\ frameStart = 0
    /\ batch = << >>
    /\ prepArgs = NoCall
    /\ prepResult = NoResult
    /\ loops = << >>
    /\ raf = {}
    /\ nextRafId = 1
    /\ microtasks = << >>
    /\ clock = 0
    /\ nav = InitialNav

\* colorLerp(start, end, progress)
CallColorLerp(start, end, progress) ==
    /\ op' = "colorLerp"
    /\ prepArgs' = [start |-> start, end |-> end, progress |-> progress]
    /\ prepResult' = [threw |-> FALSE, value |-> colorLerp(start, end, progress)]
    /\ UNCHANGED << gen, targets, objs, anims, frameTime, frameStart, batch, loops,
                    raf, nextRafId, microtasks, clock, nav >>

NextColor ==
    \E start \in Colors, end \in Colors, progress \in Progresses :
        CallColorLerp(start, end, progress)

SpecColor == InitColor /\ [][NextColor]_vars

\* C26 as stated: the result of colorLerp has an alpha exactly when at
\* least one of the two colours has one.
C26_AlphaPresence ==
    op = "colorLerp" =>
        ( prepResult.value.a # << >>
          <=> ( prepArgs.start.a # << >> \/ prepArgs.end.a # << >> ) )

\* C26 amended: the result of colorLerp always has an alpha: between the
\* two alphas when both colours have one, the one alpha when only one
\* colour has one, and 1 when neither has.
C26_AlphaAlways ==
    op = "colorLerp" =>
        LET s == prepArgs.start.a
            e == prepArgs.end.a
            a == prepResult.value.a
        IN  /\ a # << >>
            /\ ( s # << >> /\ e # << >> ) =>
                  /\ a[1] * MaxAlpha = s[1] * MaxAlpha + (e[1] - s[1]) * prepArgs.progress.n
            /\ ( s # << >> /\ e = << >> ) => a = s
            /\ ( s = << >> /\ e # << >> ) => a = e
            /\ ( s = << >> /\ e = << >> ) => a = << MaxAlpha >>

\* C26 witness: two colours without alpha were blended half way and the
\* result has the alpha 1
C26_Witness ==
    /\ op = "colorLerp"
    /\ prepArgs.start.a = << >>
    /\ prepArgs.end.a = << >>
    /\ prepArgs.start.r # prepArgs.end.r
    /\ 2 * prepArgs.progress.n = prepArgs.progress.d
    /\ prepResult.value.a = << MaxAlpha >>

====
